---- MODULE Spec2Model ----
(***************************************************************************)
(* PestPost: the slot scheduler (lib/scheduling.js) and the plan / claim / *)
(* publish pipeline (cron-scheduler, cron-runner, cron-publisher,          *)
(* cron-orchestrator) together with the webhook button handlers that write *)
(* the lifecycle fields of draft_posts.                                    *)
(*                                                                         *)
(* Time.  An instant is a number of seconds since the model's epoch, which *)
(* is a Monday 00:00:00 UTC.  A civil date is the number of whole days     *)
(* since the epoch (the Gregorian Y-M-D <-> day number bijection performed *)
(* by Intl and Date is not re-modelled); time of day keeps h, m, s.        *)
(* A zone is its UTC offset before and from one transition instant.        *)
(***************************************************************************)
EXTENDS Integers, Sequences, FiniteSets, TLC

NULL == -1

Abs(x) == IF x < 0 THEN -x ELSE x

-----------------------------------------------------------------------------
(* Zones *)

\* Europe/Budapest in the week of the spring transition: CET until
\* Sunday (day 6) 01:00 UTC, CEST from then on.
Budapest == [name |-> "Europe/Budapest", before |-> 3600, after |-> 7200,
             switchAt |-> 6 * 86400 + 3600]

\* America/New_York in the same week: EDT throughout.
NewYork == [name |-> "America/New_York", before |-> -14400, after |-> -14400,
            switchAt |-> 0]

TZ == Budapest

Zones == {Budapest, NewYork}

\* The offset Intl reports for zone tz at instant t.
OffsetAt(tz, t) == IF t < tz.switchAt THEN tz.before ELSE tz.after

-----------------------------------------------------------------------------
(* lib/scheduling.js : timezone helpers *)

\* "+02:00" as sign, hours, minutes.
offsetLabel(tz, atDate) ==
    LET o == OffsetAt(tz, atDate)
    IN  [sign |-> IF o < 0 THEN -1 ELSE 1,
         hh   |-> Abs(o) \div 3600,
         mm   |-> (Abs(o) % 3600) \div 60]

\* Date.UTC(Y, M-1, D, h, m, s) / 1000
DateUTC(D, h, m, s) == D * 86400 + h * 3600 + m * 60 + s

\* new Date("Y-M-DTh:m:s+hh:mm").getTime() / 1000
DateOfISO(iso) ==
    DateUTC(iso.D, iso.h, iso.m, iso.s)
        - iso.off.sign * (iso.off.hh * 3600 + iso.off.mm * 60)

\* Date.prototype.getUTCDay: 0 = Sunday .. 6 = Saturday (the epoch is a Monday)
getUTCDay(t) == ((t \div 86400) + 1) % 7

partsInTZ(tz, d) ==
    LET local == d + OffsetAt(tz, d)
        tod   == local % 86400
    IN  [D |-> local \div 86400,
         h |-> tod \div 3600,
         m |-> (tod % 3600) \div 60,
         s |-> tod % 60,
         off |-> offsetLabel(tz, d)]

buildISO(tz, D, h, m, s) ==
    [D |-> D, h |-> h, m |-> m, s |-> s,
     off |-> offsetLabel(tz, DateUTC(D, h, m, s))]

isWeekend(tz, d) ==
    LET iso   == partsInTZ(tz, d)
        local == DateOfISO(iso)
        dow   == getUTCDay(local)
    IN  dow = 0 \/ dow = 6

\* A slot or quiet-hours bound "HH:MM" is the pair <<HH, MM>>.
withinQuiet(tz, d, quiet) ==
    IF Len(quiet) # 2 THEN FALSE
    ELSE LET qStart == quiet[1]
             qEnd   == quiet[2]
             p      == partsInTZ(tz, d)
             mk(t)  == DateOfISO(buildISO(tz, p.D, t[1], t[2], 0))
             s      == mk(qStart)
             e      == mk(qEnd)
         IN  IF e > s THEN d >= s /\ d <= e
             ELSE d >= s \/ d <= e + 24 * 3600

-----------------------------------------------------------------------------
(* lib/scheduling.js : policy and nextSlotSimple *)

DEFAULTS == [weekday |-> << <<18, 30>> >>,
             weekend |-> << <<10, 30>> >>,
             min_gap_hours |-> 20,
             max_per_day |-> 1,
             quiet_hours |-> << >>,
             jitter_sec |-> 720]

\* dayRef of the loop at lines 81-82
DayRef(tz, nowUtc, dOffset) ==
    LET today == partsInTZ(tz, nowUtc)
        baseMidnightUTC == DateUTC(today.D, 0, 0, 0)
    IN  baseMidnightUTC + dOffset * 86400

\* The slot list the loop uses for day dOffset
DaySlots(windows, tz, nowUtc, dOffset) ==
    IF isWeekend(tz, DayRef(tz, nowUtc, dOffset))
    THEN windows.weekend ELSE windows.weekday

\* The instants the inner loop builds for day dOffset, before "dt > nowUtc"
DayInstants(windows, tz, nowUtc, dOffset) ==
    LET dayRef == DayRef(tz, nowUtc, dOffset)
        slots  == DaySlots(windows, tz, nowUtc, dOffset)
        D      == partsInTZ(tz, dayRef).D
    IN  [k \in 1..Len(slots) |->
            DateOfISO(buildISO(tz, D, slots[k][1], slots[k][2], 0))]

Candidates(windows, tz, nowUtc) ==
    LET After(dt) == dt > nowUtc
    IN  SelectSeq(DayInstants(windows, tz, nowUtc, 0), After)
          \o SelectSeq(DayInstants(windows, tz, nowUtc, 1), After)

minGapMs(windows) == windows.min_gap_hours * 3600

\* The filter without its cooldown test
Passes_NoCooldown(windows, tz, lastAt, dt) ==
    ~withinQuiet(tz, dt, windows.quiet_hours)

Passes(windows, tz, lastAt, dt) ==
    /\ ~withinQuiet(tz, dt, windows.quiet_hours)
    /\ ~(lastAt # NULL /\ dt - lastAt < minGapMs(windows))

OkCandidates(windows, tz, nowUtc, lastAt) ==
    LET Keep(dt) == Passes(windows, tz, lastAt, dt)
    IN  SelectSeq(Candidates(windows, tz, nowUtc), Keep)

\* const pick = ok[0] || candidates[0] || new Date(now + 30 min)
Pick(windows, tz, nowUtc, lastAt) ==
    LET ok == OkCandidates(windows, tz, nowUtc, lastAt)
        candidates == Candidates(windows, tz, nowUtc)
    IN  IF Len(ok) > 0 THEN ok[1]
        ELSE IF Len(candidates) > 0 THEN candidates[1]
        ELSE nowUtc + 30 * 60

\* Math.random() * jitter_sec lies in [0, jitter_sec): the whole seconds
\* 0 .. jitter_sec - 1 (0 when jitter_sec = 0); the second draw is the sign.
JitterRange(windows) ==
    IF windows.jitter_sec = 0 THEN {0} ELSE 0..(windows.jitter_sec - 1)

\* The jitter added as if it were minutes
nextSlotSimple_Minutes(windows, nowUtc, tz, lastAt, rnd, sgn) ==
    Pick(windows, tz, nowUtc, lastAt) + rnd * 60 * sgn

nextSlotSimple(windows, nowUtc, tz, lastAt, rnd, sgn) ==
    Pick(windows, tz, nowUtc, lastAt) + rnd * sgn

-----------------------------------------------------------------------------
(* Calls of the scheduling functions *)

VARIABLES slot, quiet

\* Bounds of the sampled inputs
NumDays == 3
MaxSlots == 2

\* Friday, Saturday, Sunday, ...
NowDays == 4..(3 + NumDays)

\* Times of day (UTC) at which a call is made
TodSamples == {1800, 4 * 3600, 9 * 3600, 11 * 3600, 17 * 3600 + 1500,
               17 * 3600 + 1800, 19 * 3600, 22 * 3600}

NowSamples == {D * 86400 + t : D \in NowDays, t \in TodSamples}

SlotTimes == << <<12, 0>>, <<18, 30>>, <<23, 0>> >>

QuietWrap == << <<21, 0>>, <<6, 30>> >>
QuietDay == << <<18, 0>>, <<19, 0>> >>

\* The settings values the calls are made with
PolicySeq ==
    <<DEFAULTS,
      [DEFAULTS EXCEPT !.jitter_sec = 0],
      [DEFAULTS EXCEPT !.min_gap_hours = 48, !.jitter_sec = 60],
      [DEFAULTS EXCEPT !.weekday = << >>, !.weekend = << >>],
      [DEFAULTS EXCEPT !.weekday = SubSeq(SlotTimes, 1, MaxSlots),
                       !.weekend = SubSeq(SlotTimes, 1, MaxSlots),
                       !.quiet_hours = QuietDay, !.jitter_sec = 0],
      [DEFAULTS EXCEPT !.weekday = SubSeq(SlotTimes, 1, MaxSlots),
                       !.quiet_hours = QuietWrap, !.jitter_sec = 0],
      [DEFAULTS EXCEPT !.weekday = <<SlotTimes[2], SlotTimes[1]>>,
                       !.jitter_sec = 0]>>

Policies == {PolicySeq[k] : k \in 1..Len(PolicySeq)}

\* The previous send: none, three hours ago, thirty hours ago
LastAtSamples(nowUtc) == {NULL, nowUtc - 3 * 3600, nowUtc - 30 * 3600}

RndSamples(windows) == {0, windows.jitter_sec - 1} \cap JitterRange(windows)

SlotIdle == [pc |-> "idle", windows |-> DEFAULTS, nowUtc |-> 0, tz |-> TZ,
             lastAt |-> NULL, out |-> NULL]

QuietIdle == [pc |-> "idle", tz |-> TZ, d |-> 0, hours |-> << >>,
              out |-> FALSE]

-----------------------------------------------------------------------------
(* The draft_posts table and the invocations working on it *)

VARIABLES rows,       \* draft_posts: id -> lifecycle fields of the row
          clock,      \* wall clock (new Date())
          pc,         \* position of each invocation
          mode,       \* "tick": stages called by the orchestrator; "direct"
          nowIso,     \* claimer: the instant read at the start of the run
          computed,   \* planner: the list built at cron-scheduler step 3
          idx,        \* planner: index of the next entry of computed to write
          ids,        \* claimer / publisher: the ids selected at step 1
          planWrites, \* history: guarded writes of scheduled_at that hit,
          planRet,    \* and plan responses that list the row, both counted
                      \* since a button last routed the row
          claimRet,   \* history: claim responses that list the row
          postWrites, \* history: writes of posted_at on the row
          postRet     \* history: post responses that list the row

VARIABLES drafts,    \* draft_posts as the webhook writes it: the rows in
                     \* order of insertion, a row's id is its index
          hk,        \* webhook and admin invocations in flight
          rev,       \* the deployed revision of the webhook
          res,       \* orchestrator: the results of the stages of the tick
                     \* in flight, in the order they came in
          orch,      \* the deployed revision of the orchestrator
          faults,    \* store calls that failed and invocations that died
          peek       \* the answer of the last call of a read-only mode

vars == <<slot, quiet, rows, clock, pc, mode, nowIso, computed, idx, ids,
          planWrites, planRet, claimRet, postWrites, postRet,
          drafts, hk, rev, res, orch, faults, peek>>

NumItems == 2
MaxTicks == 1
MaxLimit == 2

Ids == 1..NumItems

\* Two invocations can be in flight at once (overlapping ticks, a manual
\* call racing a scheduled one, a platform retry).
Procs == {"a", "b"}

\* Friday 16:00 UTC, i.e. 17:00 in Budapest; the clock moves in 2 h steps.
Clock0 == 4 * 86400 + 16 * 3600
TickStep == 7200

\* limit=50 is what the orchestrator passes (the planner's default is 50 too)
OrchLimit == 50

Limits == 1..MaxLimit

\* History counters saturate: only "never", "once", "more than once" matter.
Bump(n) == IF n < 2 THEN n + 1 ELSE n

BumpAll(cnt, S) == [i \in Ids |-> IF i \in S THEN Bump(cnt[i]) ELSE cnt[i]]

NewRow == [status |-> "draft", schedule_strategy |-> "null",
           scheduled_at |-> NULL, queued_at |-> NULL, posted_at |-> NULL,
           posted_result |-> "null", posted_error |-> "null"]

\* The first n rows of S in ascending order of key; rows with equal keys
\* come in whatever order the store returns them.
FirstBy(S, key, n) ==
    {T \in SUBSET S :
        /\ Cardinality(T) = IF n < Cardinality(S) THEN n ELSE Cardinality(S)
        /\ \A x \in T, y \in S \ T : key[x] <= key[y]}

\* The ids of S in ascending order
SeqOfIds(S) ==
    CHOOSE sq \in [1..Cardinality(S) -> S] :
        \A j, k \in 1..Cardinality(S) : j < k => sq[j] < sq[k]

KeyId == [i \in Ids |-> i]

IdsOf(sq) == {sq[k].id : k \in 1..Len(sq)}

PeekIdle == [kind |-> "none", limit |-> 0, out |-> {}]

ProcInit ==
    /\ pc = [p \in Procs |-> "idle"]
    /\ mode = [p \in Procs |-> "direct"]
    /\ nowIso = [p \in Procs |-> NULL]
    /\ computed = [p \in Procs |-> << >>]
    /\ idx = [p \in Procs |-> 1]
    /\ ids = [p \in Procs |-> {}]
    /\ res = [p \in Procs |-> << >>]
    /\ faults = 0
    /\ peek = PeekIdle

HistInit ==
    /\ planWrites = [i \in Ids |-> 0]
    /\ planRet = [i \in Ids |-> 0]
    /\ claimRet = [i \in Ids |-> 0]
    /\ postWrites = [i \in Ids |-> 0]
    /\ postRet = [i \in Ids |-> 0]

\* draft_posts as the webhook sees it.  The rows all come from one contact;
\* its number is stored in the digits-only form the webhook receives.
Contact == "36201234567"

MaxRows == 3
MaxMsgs == 1
MaxVariantNum == 3

\* Two webhook deliveries (or admin requests) can be in flight at once.
Hooks == {"h1", "h2"}

\* The two revisions of the webhook in the repository
Revs == {"wa-webhook.js", "part_001"}

\* the regeneration cap both revisions compare regen_count with
RegenCap == 3

NoMsg == [id |-> <<"none", 0, 0>>, kind |-> "none", from |-> Contact,
          target |-> 0]

HkIdle == [pc |-> "idle", msg |-> NoMsg, pid |-> NULL, pregen |-> 0,
           num |-> 0, skip |-> FALSE, now |-> NULL]

HookInit ==
    /\ drafts = << >>
    /\ hk = [h \in Hooks |-> HkIdle]
    /\ rev = "wa-webhook.js"
    /\ orch = "cron-orchestrator.js"

Init ==
    /\ slot = SlotIdle
    /\ quiet = QuietIdle
    /\ rows = [i \in Ids |-> NewRow]
    /\ clock = Clock0
    /\ ProcInit
    /\ HistInit
    /\ HookInit

callVars == <<slot, quiet>>
procVars == <<pc, mode, nowIso, computed, idx, ids, res>>
histVars == <<planWrites, planRet, claimRet, postWrites, postRet>>
hookVars == <<drafts, hk, rev>>
envVars == <<hookVars, orch, faults, peek>>

\* Time passes.
Tick ==
    /\ clock < Clock0 + MaxTicks * TickStep
    /\ clock' = clock + TickStep
    /\ UNCHANGED <<envVars, callVars, rows, procVars, histVars>>

-----------------------------------------------------------------------------
(* api/wa-webhook.js : button handlers *)

\* "approve:<id>"
Approve(i) ==
    /\ rows' = IF rows[i].status # "approved"
               THEN [rows EXCEPT ![i].status = "approved"]
               ELSE rows
    /\ UNCHANGED <<envVars, callVars, clock, procVars, histVars>>

\* The handler writing the routing alone
PostNow_StrategyOnly(i) ==
    /\ rows' = [rows EXCEPT ![i].schedule_strategy = "now"]
    /\ UNCHANGED <<envVars, callVars, clock, procVars, histVars>>

\* "postnow:<id>"
PostNow(i) ==
    /\ rows' = [rows EXCEPT ![i].schedule_strategy = "now",
                            ![i].scheduled_at = clock]
    /\ planWrites' = [planWrites EXCEPT ![i] = 0]
    /\ planRet' = [planRet EXCEPT ![i] = 0]
    /\ UNCHANGED <<envVars, callVars, clock, procVars, claimRet, postWrites, postRet>>

\* "aisched:<id>"
AiSched(i) ==
    /\ rows' = [rows EXCEPT ![i].schedule_strategy = "ai",
                            ![i].scheduled_at = NULL]
    /\ planWrites' = [planWrites EXCEPT ![i] = 0]
    /\ planRet' = [planRet EXCEPT ![i] = 0]
    /\ UNCHANGED <<envVars, callVars, clock, procVars, claimRet, postWrites, postRet>>

-----------------------------------------------------------------------------
(* api/cron-orchestrator.js *)

\* A step of an invocation covers one store call together with the
\* synchronous code that leads to it; the code that follows the last store
\* call of a stage (building the response) belongs to that last step.

\* The limit a stage runs with.  The orchestrator passes limit=50, more
\* than the table of the model holds; m = "round" is a tick with the limit
\* scaled to that table, so that a backlog can exceed it.
LimitsOf(m) == IF m = "tick" THEN {OrchLimit} ELSE Limits

\* The stage is one of the three an orchestrator awaits in a row
Awaited(m) == m # "direct"

\* The orchestrator without its second await
NextStage_SkipClaim(stage) ==
    IF stage = "plan" THEN "post_select" ELSE "idle"

\* The stage the orchestrator awaits after this one
NextStage(stage) ==
    IF stage = "plan" THEN "claim_select"
    ELSE IF stage = "claim" THEN "post_select"
    ELSE "idle"

\* A stage has answered (ok: with its result, otherwise with an error):
\* the orchestrator keeps the answer and goes on to the next stage, a
\* direct call is over.
Reply(p, stage, m, ok) ==
    /\ pc' = [pc EXCEPT ![p] = IF Awaited(m) THEN NextStage(stage)
                               ELSE "idle"]
    /\ mode' = [mode EXCEPT ![p] = IF Awaited(m) /\ stage # "post"
                                   THEN m ELSE "direct"]
    /\ res' = [res EXCEPT ![p] =
                 IF Awaited(m) /\ stage # "post"
                 THEN Append(@, [stage |-> stage, ok |-> ok])
                 ELSE << >>]
    /\ nowIso' = [nowIso EXCEPT ![p] = NULL]
    /\ computed' = [computed EXCEPT ![p] = << >>]
    /\ idx' = [idx EXCEPT ![p] = 1]
    /\ ids' = [ids EXCEPT ![p] = {}]

\* A stage has returned its result
Return(p, stage, m) == Reply(p, stage, m, TRUE)

-----------------------------------------------------------------------------
(* api/cron-scheduler.js : action=plan *)

\* The select without .is('scheduled_at', null)
NeedsPlan_AnyScheduled(r) ==
    /\ r.status = "approved"
    /\ r.schedule_strategy = "ai"

NeedsPlan(r) ==
    /\ r.status = "approved"
    /\ r.schedule_strategy = "ai"
    /\ r.scheduled_at = NULL

\* The draws of Math.random() the planner's calls are made with
PlanJitter == {-(DEFAULTS.jitter_sec - 1), DEFAULTS.jitter_sec - 1}

\* steps 2 and 3: select the rows to plan and compute a time for each.
\* m = "direct": GET cron-scheduler?action=plan; m = "tick": the
\* orchestrator's GET, which starts with the planner.
PlanSelect(p, m) ==
    /\ pc[p] = "idle"
    /\ \E limit \in LimitsOf(m) :
         \E need \in FirstBy({i \in Ids : NeedsPlan(rows[i])}, KeyId, limit) :
           \E jit \in [need -> PlanJitter] :
              LET sq == SeqOfIds(need)
                  list == [k \in 1..Len(sq) |->
                             [id |-> sq[k],
                              scheduled_at |->
                                 nextSlotSimple(DEFAULTS, clock, TZ, NULL,
                                                Abs(jit[sq[k]]),
                                                IF jit[sq[k]] < 0 THEN -1
                                                ELSE 1)]]
              IN  IF need = {}
                  THEN Return(p, "plan", m)
                  ELSE /\ pc' = [pc EXCEPT ![p] = "plan_write"]
                       /\ mode' = [mode EXCEPT ![p] = m]
                       /\ computed' = [computed EXCEPT ![p] = list]
                       /\ idx' = [idx EXCEPT ![p] = 1]
                       /\ UNCHANGED <<nowIso, ids, res>>
    /\ UNCHANGED <<envVars, callVars, rows, clock, histVars>>

\* The update without its guard
PlanWriteGuard_None(r) == TRUE

\* .is('scheduled_at', null)
PlanWriteGuard(r) == r.scheduled_at = NULL

\* step 4, one turn of the loop: the guarded update of one row; after the
\* last turn, okItems and the response
PlanWrite(p) ==
    /\ pc[p] = "plan_write"
    /\ LET u   == computed[p][idx[p]]
           hit == PlanWriteGuard(rows[u.id])
       IN  /\ rows' = IF hit
                      THEN [rows EXCEPT ![u.id].scheduled_at = u.scheduled_at]
                      ELSE rows
           /\ planWrites' = IF hit
                            THEN [planWrites EXCEPT ![u.id] = Bump(@)]
                            ELSE planWrites
    /\ IF idx[p] = Len(computed[p])
       THEN /\ planRet' = BumpAll(planRet, IdsOf(computed[p]))
            /\ Return(p, "plan", mode[p])
       ELSE /\ idx' = [idx EXCEPT ![p] = @ + 1]
            /\ UNCHANGED <<planRet, pc, mode, nowIso, computed, ids, res>>
    /\ UNCHANGED <<envVars, callVars, clock, claimRet, postWrites, postRet>>

-----------------------------------------------------------------------------
(* api/cron-runner.js : action=claim *)

\* baseSelect alone: the claimer's select without .is('queued_at', null)
IsDue_AnyQueued(r, now) ==
    /\ r.status = "approved"
    /\ r.scheduled_at # NULL
    /\ r.scheduled_at <= now

\* baseSelect plus .is('queued_at', null)
IsDue(r, now) ==
    /\ r.status = "approved"
    /\ r.scheduled_at # NULL
    /\ r.scheduled_at <= now
    /\ r.queued_at = NULL

\* step 1: pick up to N due, unqueued items (a direct call, or the second
\* stage of a tick)
ClaimSelect(p, m) ==
    /\ pc[p] = IF Awaited(m) THEN "claim_select" ELSE "idle"
    /\ Awaited(m) => mode[p] = m
    /\ LET KeySched == [i \in Ids |-> rows[i].scheduled_at]
       IN  \E limit \in LimitsOf(m) :
             \E due \in FirstBy({i \in Ids : IsDue(rows[i], clock)},
                                KeySched, limit) :
                IF due = {}
                THEN Return(p, "claim", m)
                ELSE /\ pc' = [pc EXCEPT ![p] = "claim_update"]
                     /\ mode' = [mode EXCEPT ![p] = m]
                     /\ nowIso' = [nowIso EXCEPT ![p] = clock]
                     /\ ids' = [ids EXCEPT ![p] = due]
                     /\ UNCHANGED <<computed, idx, res>>
    /\ UNCHANGED <<envVars, callVars, rows, clock, histVars>>

\* The update without its guard
ClaimUpdateGuard_None(r) == TRUE

\* .is('queued_at', null)
ClaimUpdateGuard(r) == r.queued_at = NULL

\* step 2: mark them queued; the rows the update touched are the response
ClaimUpdate(p) ==
    /\ pc[p] = "claim_update"
    /\ LET claimed == {i \in ids[p] : ClaimUpdateGuard(rows[i])}
       IN  /\ rows' = [i \in Ids |->
                         IF i \in claimed
                         THEN [rows[i] EXCEPT !.queued_at = nowIso[p]]
                         ELSE rows[i]]
           /\ claimRet' = BumpAll(claimRet, claimed)
    /\ Return(p, "claim", mode[p])
    /\ UNCHANGED <<envVars, callVars, clock, planWrites, planRet, postWrites, postRet>>

-----------------------------------------------------------------------------
(* api/cron-publisher.js : action=post *)

\* the work queue: claimed and not yet posted
IsPending(r) ==
    /\ r.queued_at # NULL
    /\ r.posted_at = NULL

\* step 1: get up to N pending items (a direct call, or the third stage of
\* a tick)
PostSelect(p, m) ==
    /\ pc[p] = IF Awaited(m) THEN "post_select" ELSE "idle"
    /\ Awaited(m) => mode[p] = m
    /\ LET KeyQueued == [i \in Ids |-> rows[i].queued_at]
       IN  \E limit \in LimitsOf(m) :
             \E pending \in FirstBy({i \in Ids : IsPending(rows[i])},
                                    KeyQueued, limit) :
                IF pending = {}
                THEN Return(p, "post", m)
                ELSE /\ pc' = [pc EXCEPT ![p] = "post_update"]
                     /\ mode' = [mode EXCEPT ![p] = m]
                     /\ ids' = [ids EXCEPT ![p] = pending]
                     /\ UNCHANGED <<nowIso, computed, idx, res>>
    /\ UNCHANGED <<envVars, callVars, rows, clock, histVars>>

\* The update without its guard
PostUpdateGuard_None(r) == TRUE

\* .is('posted_at', null)
PostUpdateGuard(r) == r.posted_at = NULL

\* step 2: stamp posted_at and posted_result; the rows the update touched
\* are the response
PostUpdate(p) ==
    /\ pc[p] = "post_update"
    /\ LET updated == {i \in ids[p] : PostUpdateGuard(rows[i])}
       IN  /\ rows' = [i \in Ids |->
                         IF i \in updated
                         THEN [rows[i] EXCEPT !.posted_at = clock,
                                              !.posted_result = "noop"]
                         ELSE rows[i]]
           /\ postWrites' = BumpAll(postWrites, updated)
           /\ postRet' = BumpAll(postRet, updated)
    /\ Return(p, "post", mode[p])
    /\ UNCHANGED <<envVars, callVars, clock, planWrites, planRet, claimRet>>

-----------------------------------------------------------------------------
(* The read-only modes of the stages: one select and the answer *)

\* The call, made while no other call of the caller is in flight, has been
\* answered with the ids of out
Answer(kind, limit, out) ==
    /\ peek = PeekIdle
    /\ \A p \in Procs : pc[p] = "idle"
    /\ peek' = [kind |-> kind, limit |-> limit, out |-> out]
    /\ UNCHANGED <<hookVars, orch, faults, callVars, rows, clock, procVars,
                   histVars>>

\* cron-scheduler?action=peek: the rows found at step 2
PlanPeek(limit) ==
    \E need \in FirstBy({i \in Ids : NeedsPlan(rows[i])}, KeyId, limit) :
       Answer("plan_peek", limit, need)

\* cron-scheduler?action=plan&dry_run=true: the list computed at step 3
PlanDryRun(limit) ==
    \E need \in FirstBy({i \in Ids : NeedsPlan(rows[i])}, KeyId, limit) :
       Answer("plan_dry_run", limit, need)

\* The claimer's peek without .is('queued_at', null)
IsDuePeek_AnyQueued(r, now) ==
    /\ r.status = "approved"
    /\ r.scheduled_at # NULL
    /\ r.scheduled_at <= now

\* cron-runner?action=peek: baseSelect.is('queued_at', null)
IsDuePeek(r, now) ==
    /\ r.status = "approved"
    /\ r.scheduled_at # NULL
    /\ r.scheduled_at <= now
    /\ r.queued_at = NULL

ClaimPeek(limit) ==
    LET KeySched == [i \in Ids |-> rows[i].scheduled_at]
    IN  \E due \in FirstBy({i \in Ids : IsDuePeek(rows[i], clock)},
                           KeySched, limit) :
           Answer("claim_peek", limit, due)

\* cron-publisher?action=peek: the work queue
PostPeek(limit) ==
    LET KeyQueued == [i \in Ids |-> rows[i].queued_at]
    IN  \E pending \in FirstBy({i \in Ids : IsPending(rows[i])},
                               KeyQueued, limit) :
           Answer("post_peek", limit, pending)

\* cron-publisher?action=post&dry_run=true: would_post_ids (with nothing
\* pending the answer is that of a post that found nothing)
PostDryRun(limit) ==
    LET KeyQueued == [i \in Ids |-> rows[i].queued_at]
    IN  \E pending \in FirstBy({i \in Ids : IsPending(rows[i])},
                               KeyQueued, limit) :
           Answer("post_dry_run", limit, pending)

\* A call of a read-only mode
ReadOnlyCall ==
    \E limit \in Limits :
       \/ PlanPeek(limit)
       \/ PlanDryRun(limit)
       \/ ClaimPeek(limit)
       \/ PostPeek(limit)
       \/ PostDryRun(limit)

\* The caller has read the answer
PeekReturn ==
    /\ peek # PeekIdle
    /\ peek' = PeekIdle
    /\ UNCHANGED <<hookVars, orch, faults, callVars, rows, clock, procVars,
                   histVars>>

-----------------------------------------------------------------------------
(* Failures: a store call that answers with an error, a stage that throws, *)
(* an invocation that is killed                                            *)

MaxFaults == 2

\* The two revisions of the orchestrator in the repository
Orchs == {"cron-orchestrator.js", "admin-drafts.js"}

\* The stage an invocation at position at is in; a tick starts with the
\* planner
StageOfPc(at) ==
    IF at \in {"idle", "plan_write"} THEN "plan"
    ELSE IF at \in {"claim_select", "claim_update"} THEN "claim"
    ELSE "post"

\* The invocation is over and has left no answer
Reset(p) ==
    /\ pc' = [pc EXCEPT ![p] = "idle"]
    /\ mode' = [mode EXCEPT ![p] = "direct"]
    /\ res' = [res EXCEPT ![p] = << >>]
    /\ nowIso' = [nowIso EXCEPT ![p] = NULL]
    /\ computed' = [computed EXCEPT ![p] = << >>]
    /\ idx' = [idx EXCEPT ![p] = 1]
    /\ ids' = [ids EXCEPT ![p] = {}]

\* The select of a stage of a tick comes back with an error: the stage
\* answers { ok: false, error } with status 500.  (A direct call whose
\* select fails is over without having changed anything.)
SelectFails(p) ==
    /\ faults < MaxFaults
    /\ pc[p] \in {"idle", "claim_select", "post_select"}
    /\ faults' = faults + 1
    /\ Reply(p, StageOfPc(pc[p]),
             IF pc[p] = "idle" THEN "tick" ELSE mode[p], FALSE)
    /\ UNCHANGED <<hookVars, orch, peek, callVars, rows, clock, histVars>>

\* The planner's update of one row comes back with an error: the loop
\* pushes { id, error } and goes on
PlanWriteFails(p) ==
    /\ faults < MaxFaults
    /\ pc[p] = "plan_write"
    /\ faults' = faults + 1
    /\ IF idx[p] = Len(computed[p])
       THEN /\ planRet' = BumpAll(planRet, IdsOf(computed[p]))
            /\ Return(p, "plan", mode[p])
       ELSE /\ idx' = [idx EXCEPT ![p] = @ + 1]
            /\ UNCHANGED <<planRet, pc, mode, nowIso, computed, ids, res>>
    /\ UNCHANGED <<hookVars, orch, peek, callVars, rows, clock, planWrites,
                   claimRet, postWrites, postRet>>

\* The claimer's update comes back with an error: status 500
ClaimUpdateFails(p) ==
    /\ faults < MaxFaults
    /\ pc[p] = "claim_update"
    /\ faults' = faults + 1
    /\ Reply(p, "claim", mode[p], FALSE)
    /\ UNCHANGED <<hookVars, orch, peek, callVars, rows, clock, histVars>>

\* The publisher's update comes back with an error, whichever item of the
\* batch caused it: status 500
PostUpdateFails(p) ==
    /\ faults < MaxFaults
    /\ pc[p] = "post_update"
    /\ faults' = faults + 1
    /\ Reply(p, "post", mode[p], FALSE)
    /\ UNCHANGED <<hookVars, orch, peek, callVars, rows, clock, histVars>>

\* A stage of a tick throws at its next store call.  cron-orchestrator.js
\* catches per stage and goes on with { ok: false, error } as the stage's
\* result; admin-drafts.js has one try around the three stages and answers
\* { ok: false, error } alone.
Throws(p) ==
    /\ faults < MaxFaults
    /\ pc[p] = "idle" \/ mode[p] = "tick"
    /\ faults' = faults + 1
    /\ IF orch = "admin-drafts.js"
       THEN Reset(p)
       ELSE Reply(p, StageOfPc(pc[p]), "tick", FALSE)
    /\ UNCHANGED <<hookVars, orch, peek, callVars, rows, clock, histVars>>

\* The invocation is killed (timeout, crash) between two store calls
Crash(p) ==
    /\ faults < MaxFaults
    /\ pc[p] # "idle"
    /\ faults' = faults + 1
    /\ Reset(p)
    /\ UNCHANGED <<hookVars, orch, peek, callVars, rows, clock, histVars>>

\* A stage fails
StageFails(p) ==
    \/ SelectFails(p)
    \/ ClaimUpdateFails(p)
    \/ PostUpdateFails(p)
    \/ Throws(p)

-----------------------------------------------------------------------------
(* lib/scheduling.js : calls of the exported function and of withinQuiet *)

\* A caller invokes nextSlotSimple({ windows, nowUtc, tz, lastAt })
CallNextSlot ==
    /\ slot.pc = "idle" /\ quiet.pc = "idle"
    /\ \E k \in 1..Len(PolicySeq), nowUtc \in NowSamples, tz \in Zones :
         \E lastAt \in LastAtSamples(nowUtc),
            rnd \in RndSamples(PolicySeq[k]), sgn \in {-1, 1} :
          LET windows == PolicySeq[k] IN
            slot' = [pc |-> "done", windows |-> windows, nowUtc |-> nowUtc,
                     tz |-> tz, lastAt |-> lastAt,
                     out |-> nextSlotSimple(windows, nowUtc, tz, lastAt,
                                            rnd, sgn)]
    /\ UNCHANGED <<envVars, quiet, rows, clock, procVars, histVars>>

\* withinQuiet(tz, d, quiet) applied to an instant
CallWithinQuiet ==
    /\ slot.pc = "idle" /\ quiet.pc = "idle"
    /\ \E tz \in Zones, d \in NowSamples,
          hours \in {QuietWrap, QuietDay, << >>} :
            quiet' = [pc |-> "done", tz |-> tz, d |-> d, hours |-> hours,
                      out |-> withinQuiet(tz, d, hours)]
    /\ UNCHANGED <<envVars, slot, rows, clock, procVars, histVars>>

\* The call's result has been consumed
CallReturn ==
    /\ slot.pc = "done" \/ quiet.pc = "done"
    /\ slot' = SlotIdle
    /\ quiet' = QuietIdle
    /\ UNCHANGED <<envVars, rows, clock, procVars, histVars>>

-----------------------------------------------------------------------------
(* lib/scheduling.js : loadWindows and calls of the timezone helpers *)

\* A settings value differing from DEFAULTS in every key
StoredValue == [weekday |-> << <<12, 0>>, <<18, 30>> >>,
                weekend |-> << >>,
                min_gap_hours |-> 48,
                max_per_day |-> 2,
                quiet_hours |-> QuietWrap,
                jitter_sec |-> 60]

\* What the read of settings can come to: the client is null (the
\* environment names no store), the awaited call rejects, the answer
\* carries an error (.single() on no row is one), the row's value is null,
\* or the row's value is an object with some of the keys
Reads ==
    {[kind |-> k, value |-> NULL] :
        k \in {"unconfigured", "rejects", "error", "norow", "null"}}
    \cup {[kind |-> "value", value |-> [k \in S |-> StoredValue[k]]] :
             S \in SUBSET DOMAIN StoredValue}

\* { ...DEFAULTS, ...value } with the defaults left out
Spread_StoredOnly(defaults, value) == value

\* { ...DEFAULTS, ...value }
Spread(defaults, value) ==
    [k \in DOMAIN defaults \cup DOMAIN value |->
        IF k \in DOMAIN value THEN value[k] ELSE defaults[k]]

\* The outcome of the call: what it returns, or that it threw.  A null
\* client and a rejected call throw inside the try and are caught.
loadWindows(read) ==
    LET thrownInTry == read.kind \in {"unconfigured", "rejects"}
        error == read.kind \in {"error", "norow"}
        noValue == read.kind = "null"
    IN  IF thrownInTry THEN [threw |-> FALSE, value |-> DEFAULTS]
        ELSE IF error \/ noValue
             THEN [threw |-> FALSE, value |-> DEFAULTS]
             ELSE [threw |-> FALSE, value |-> Spread(DEFAULTS, read.value)]

\* const windows = await loadWindows()
CallLoadWindows ==
    /\ slot.pc = "idle" /\ quiet.pc = "idle"
    /\ \E read \in Reads :
         slot' = [pc |-> "done", fn |-> "loadWindows", read |-> read,
                  out |-> loadWindows(read)]
    /\ UNCHANGED <<envVars, quiet, rows, clock, procVars, histVars>>

\* isWeekend(tz, d) applied to an instant: at noon, and half an hour
\* from midnight UTC on either side
CallIsWeekend ==
    /\ slot.pc = "idle" /\ quiet.pc = "idle"
    /\ \E tz \in Zones, D \in NowDays,
          t \in {1800, 12 * 3600, 23 * 3600 + 1800} :
         LET d == D * 86400 + t
         IN  quiet' = [pc |-> "done", fn |-> "isWeekend", tz |-> tz,
                       d |-> d, out |-> isWeekend(tz, d)]
    /\ UNCHANGED <<envVars, slot, rows, clock, procVars, histVars>>

\* new Date(buildISO(tz, Y, M, D, h, m, s)) and partsInTZ of that instant,
\* for the wall-clock times of the days around the transition
CallBuildISO ==
    /\ slot.pc = "idle" /\ quiet.pc = "idle"
    /\ \E tz \in Zones, D \in NowDays, h \in {0, 1, 2, 3, 12, 23},
          m \in {0, 30} :
         LET d == DateOfISO(buildISO(tz, D, h, m, 0))
         IN  quiet' = [pc |-> "done", fn |-> "buildISO", tz |-> tz,
                       civil |-> [D |-> D, h |-> h, m |-> m, s |-> 0],
                       d |-> d, out |-> partsInTZ(tz, d)]
    /\ UNCHANGED <<envVars, slot, rows, clock, procVars, histVars>>

-----------------------------------------------------------------------------
(* The limit parameter of the stages *)

\* A query-string value is the sequence of its characters; NoParam is
\* what searchParams.get returns when the parameter is absent (null).
NoParam == <<"null">>

LimitParams ==
    {NoParam, << >>, <<"0">>, <<"-", "5">>, <<"7">>, <<" ", "7">>,
     <<"3", ".", "9">>, <<"1", "2", "a", "b", "c">>, <<"a", "b", "c">>,
     <<"2", "0", "0">>, <<"2", "0", "1">>, <<"5", "0", "1">>,
     <<"9", "9", "9", "9">>}

\* A JavaScript number: an integer, or NaN
Num(n) == [nan |-> FALSE, v |-> n]
NaN == [nan |-> TRUE, v |-> 0]

DigitValue ==
    [c \in {"0", "1", "2", "3", "4", "5", "6", "7", "8", "9"} |->
        CASE c = "0" -> 0 [] c = "1" -> 1 [] c = "2" -> 2 [] c = "3" -> 3
          [] c = "4" -> 4 [] c = "5" -> 5 [] c = "6" -> 6 [] c = "7" -> 7
          [] c = "8" -> 8 [] c = "9" -> 9]

\* The value of the longest prefix of str made of digits, read after the
\* digits whose value is acc; none is  -1
RECURSIVE DigitsPrefix(_, _)
DigitsPrefix(str, acc) ==
    IF str = << >> \/ Head(str) \notin DOMAIN DigitValue THEN acc
    ELSE DigitsPrefix(Tail(str),
                      (IF acc < 0 THEN 0 ELSE acc) * 10
                         + DigitValue[Head(str)])

RECURSIVE TrimStart(_)
TrimStart(str) ==
    IF str # << >> /\ Head(str) = " " THEN TrimStart(Tail(str)) ELSE str

\* parseInt(str, 10): leading white space, a sign, then digits; what
\* follows the digits is ignored, and without a digit the result is NaN
parseInt(str) ==
    LET t == TrimStart(str)
        signed == t # << >> /\ Head(t) \in {"-", "+"}
        sign == IF t # << >> /\ Head(t) = "-" THEN -1 ELSE 1
        digits == DigitsPrefix(IF signed THEN Tail(t) ELSE t, -1)
    IN  IF digits < 0 THEN NaN ELSE Num(sign * digits)

\* Math.max and Math.min: NaN if an argument is NaN
MathMax(a, b) ==
    IF a.nan \/ b.nan THEN NaN ELSE IF a.v > b.v THEN a ELSE b

MathMin(a, b) ==
    IF a.nan \/ b.nan THEN NaN ELSE IF a.v < b.v THEN a ELSE b

\* The stages' default and highest limit
LimitDefault ==
    [plan |-> <<"5", "0">>, claim |-> <<"1", "0", "0">>,
     post |-> <<"5", "0">>]

LimitMax == [plan |-> 200, claim |-> 500, post |-> 200]

\* Math.min(Math.max(parseInt(get('limit') || '<default>', 10), 1), <max>)
StageLimit(stage, param) ==
    LET given == IF param = NoParam \/ param = << >>
                 THEN LimitDefault[stage] ELSE param
    IN  MathMin(MathMax(parseInt(given), Num(1)), Num(LimitMax[stage]))

\* The numbers of rows that match a stage's select
MatchCounts == {0, 3, 250, 600}

\* The rows a select with .limit(limit) / .range(0, limit - 1) returns of
\* n that match.  With limit NaN the request carries "limit=NaN": the
\* store answers with an error (no row) or reads the request as one
\* without a limit (all rows).
Selected(limit, n) ==
    IF limit.nan THEN {0, n}
    ELSE IF limit.v <= 0 THEN {0}
    ELSE {IF limit.v < n THEN limit.v ELSE n}

\* A stage is called with ?limit=param on a table in which n rows match
\* its select: the limit it computes, the rows it selects and the rows its
\* update writes (those selected)
CallStage ==
    /\ slot.pc = "idle" /\ quiet.pc = "idle"
    /\ \E stage \in {"plan", "claim", "post"}, param \in LimitParams,
          n \in MatchCounts :
         LET limit == StageLimit(stage, param)
         IN  \E k \in Selected(limit, n) :
               slot' = [pc |-> "done", fn |-> "stage", stage |-> stage,
                        param |-> param, limit |-> limit, matching |-> n,
                        selected |-> k, written |-> k]
    /\ UNCHANGED <<envVars, quiet, rows, clock, procVars, histVars>>

-----------------------------------------------------------------------------
(* api/cron.js and its earlier revision (unnamed/part_002), the            *)
(* orchestrator and the stages : who may call                              *)

\* The values of the secrets in the environment and in requests; "" is a
\* variable that is not set, a parameter that is absent
Secrets == {"", "s1", "s2"}

\* bearer of a request without an Authorization: Bearer header
NoBearer == "null"

\* CRON_SECRET, CRON_TOKEN (or ADMIN_API_TOKEN in its place) and
\* CRON_ORCH_KEY of the deployment
Configs == [secret : Secrets, token : Secrets, key : Secrets]

\* A request: the x-vercel-cron header, ?key= and the bearer token
CronRequests ==
    [cron : BOOLEAN, key : Secrets, bearer : (Secrets \ {""}) \cup {NoBearer}]

\* What the callee reads from `Bearer ${x}`: the token, or no bearer when x
\* is empty
BearerOf(x) == IF x = "" THEN NoBearer ELSE x

\* The two revisions of the proxy in the repository
Proxies == {"cron.js", "part_002"}

\* cron.js: allowed; part_002: isVercelCron
ProxyAllowed(proxy, cfg, req) ==
    IF proxy = "part_002" THEN req.cron
    ELSE \/ req.cron
         \/ cfg.key # "" /\ req.key = cfg.key
         \/ cfg.secret # "" /\ req.bearer = cfg.secret
         \/ cfg.token # "" /\ req.bearer = cfg.token

\* The request the proxy hands to the orchestrator
ProxyForward(proxy, cfg) ==
    [cron |-> FALSE, key |-> "",
     bearer |-> BearerOf(IF proxy = "part_002" THEN cfg.secret
                         ELSE IF cfg.secret # "" THEN cfg.secret
                         ELSE cfg.token)]

\* cron-orchestrator.js: allowed
OrchAllowed(cfg, req) ==
    \/ cfg.key # "" /\ req.key # "" /\ req.key = cfg.key
    \/ cfg.token # "" /\ req.bearer # NoBearer /\ req.bearer = cfg.token

\* authHeaders: the bearer the orchestrator calls the stages with
OrchForward(cfg) == BearerOf(cfg.token)

\* The token guard of cron-scheduler, cron-runner and cron-publisher
StageAllowed(cfg, bearer) ==
    LET provided == IF bearer # NoBearer THEN bearer ELSE ""
    IN  ~(cfg.token = "" \/ provided # cfg.token)

\* A request arrives at the proxy or at the orchestrator itself: the
\* answer of each link of the chain it gets to
CallCron ==
    /\ slot.pc = "idle" /\ quiet.pc = "idle"
    /\ \E entry \in Proxies \cup {"cron-orchestrator.js"}, cfg \in Configs,
          req \in CronRequests :
         LET viaProxy == entry \in Proxies
             atProxy  == IF ~viaProxy THEN "none"
                         ELSE IF ProxyAllowed(entry, cfg, req) THEN "forward"
                         ELSE "403"
             orchReq  == IF viaProxy THEN ProxyForward(entry, cfg) ELSE req
             atOrch   == IF atProxy = "403" THEN "none"
                         ELSE IF OrchAllowed(cfg, orchReq) THEN "200"
                         ELSE "401"
             atStages == IF atOrch # "200" THEN "none"
                         ELSE IF StageAllowed(cfg, OrchForward(cfg))
                              THEN "200"
                         ELSE "401"
         IN  slot' = [pc |-> "done", fn |-> "cron", entry |-> entry,
                      cfg |-> cfg, req |-> req, proxy |-> atProxy,
                      orch |-> atOrch, stages |-> atStages]
    /\ UNCHANGED <<envVars, quiet, rows, clock, procVars, histVars>>

-----------------------------------------------------------------------------
(* Stage calls made one at a time: request, store calls and response with *)
(* nothing else running in between                                         *)

\* The update's .order('scheduled_at', { ascending: true }) without effect:
\* the rows come back in any order
OrderedBy_Unordered(S, key) ==
    {sq \in [1..Cardinality(S) -> S] :
        \A j, k \in 1..Cardinality(S) : j < k => sq[j] # sq[k]}

\* The orders in which the store returns the rows of S when asked to sort
\* them by ascending key
OrderedBy(S, key) ==
    {sq \in [1..Cardinality(S) -> S] :
        \A j, k \in 1..Cardinality(S) :
            j < k => sq[j] # sq[k] /\ key[sq[j]] <= key[sq[k]]}

\* The select ordered by id with .limit(limit) dropped from it
FirstIds_NoLimit(S, limit) == {S}

\* .order('id', { ascending: true }).limit(limit)
FirstIds(S, limit) == FirstBy(S, KeyId, limit)

\* GET cron-runner?action=claim&limit=n, from nowIso to the response
CallClaim ==
    /\ slot.pc = "idle" /\ quiet.pc = "idle"
    /\ \A p \in Procs : pc[p] = "idle"
    /\ \E limit \in Limits :
         LET KeySched == [i \in Ids |-> rows[i].scheduled_at]
         IN  \E due \in FirstBy({i \in Ids : IsDue(rows[i], clock)},
                                KeySched, limit) :
               LET claimed == {i \in due : ClaimUpdateGuard(rows[i])}
               IN  \E items \in OrderedBy(claimed, KeySched) :
                     /\ rows' = [i \in Ids |->
                                   IF i \in claimed
                                   THEN [rows[i] EXCEPT !.queued_at = clock]
                                   ELSE rows[i]]
                     /\ claimRet' = BumpAll(claimRet, claimed)
                     /\ slot' = [pc |-> "done", fn |-> "claim",
                                 limit |-> limit, now |-> clock,
                                 before |-> rows, items |-> items]
    /\ UNCHANGED <<envVars, quiet, clock, procVars, planWrites, planRet,
                   postWrites, postRet>>

\* GET cron-scheduler?action=plan&limit=n, from the select to the response
CallPlan ==
    /\ slot.pc = "idle" /\ quiet.pc = "idle"
    /\ \A p \in Procs : pc[p] = "idle"
    /\ \E limit \in Limits :
         \E need \in FirstIds({i \in Ids : NeedsPlan(rows[i])}, limit) :
           \E jit \in [need -> PlanJitter] :
              LET sq == SeqOfIds(need)
                  list == [k \in 1..Len(sq) |->
                             [id |-> sq[k],
                              scheduled_at |->
                                 nextSlotSimple(DEFAULTS, clock, TZ, NULL,
                                                Abs(jit[sq[k]]),
                                                IF jit[sq[k]] < 0 THEN -1
                                                ELSE 1)]]
                  hit == {k \in 1..Len(list) :
                             PlanWriteGuard(rows[list[k].id])}
              IN  /\ rows' = [i \in Ids |->
                                IF \E k \in hit : list[k].id = i
                                THEN [rows[i] EXCEPT !.scheduled_at =
                                        list[CHOOSE k \in hit :
                                                list[k].id = i].scheduled_at]
                                ELSE rows[i]]
                  /\ planWrites' = BumpAll(planWrites,
                                           {list[k].id : k \in hit})
                  /\ planRet' = BumpAll(planRet, IdsOf(list))
                  /\ slot' = [pc |-> "done", fn |-> "plan",
                              limit |-> limit, now |-> clock,
                              before |-> rows, items |-> list]
    /\ UNCHANGED <<envVars, quiet, clock, procVars, claimRet, postWrites,
                   postRet>>

\* A button is pressed between two calls
ButtonEvent ==
    /\ slot.pc = "idle"
    /\ \E i \in Ids : Approve(i) \/ PostNow(i)

-----------------------------------------------------------------------------
(* api/wa-webhook.js and its later revision (unnamed/part_001) : inbound   *)
(* messages and the draft rows they create                                 *)

pipeVars == <<callVars, rows, procVars, histVars, orch, faults, peek>>

\* The four-row thread a table can start with (Chain below) and the one
\* row it can grow by
ChainLen == RegenCap + 1

\* The rows the buttons of the delivered events name: the first rows of a
\* table, and row ChainLen, the end of the thread where there is one and no
\* row where there is none
ApproveTargets == {1, 2}
EditTargets == {1, 2, ChainLen}
DislikeTargets == {1, ChainLen}

\* The messages Meta can deliver, each any number of times.  A message id
\* determines the message: <<kind, target row, serial>>.
Button(k, t, n) == [id |-> <<k, t, n>>, kind |-> k, from |-> Contact,
                    target |-> t]

Inbound ==
    {Button(k, 0, n) : k \in {"media", "text"}, n \in 1..MaxMsgs}
    \cup {Button("approve", t, n) : t \in ApproveTargets, n \in 1..MaxMsgs}
    \cup {Button("request_edit", t, n) :
             t \in EditTargets, n \in 1..MaxMsgs}
    \cup {Button("dontlike", t, n) : t \in DislikeTargets, n \in 1..MaxMsgs}

RowIds == 1..Len(drafts)

\* .eq('source_message_id', id)
BySource(id) == {i \in RowIds : drafts[i].src = id}

\* .eq('from_wa', from).eq('awaiting_edit', true)
Awaiting(from) ==
    {i \in RowIds : drafts[i].from_wa = from /\ drafts[i].awaiting_edit}

\* .order('id', { ascending: false }).limit(1)
Latest(S) == CHOOSE x \in S : \A y \in S : y <= x

\* A handler that may add a row starts only while the table has room for
\* the rows of the handlers already in flight.
Room ==
    Len(drafts)
      + Cardinality({h \in Hooks :
                        hk[h].msg.kind \in {"media", "text", "dontlike"}})
      < IF Len(drafts) < ChainLen THEN MaxRows ELSE ChainLen + 1

\* The row a payload creates; the columns it does not name take their
\* defaults.  origin is history: the id of the inbound message whose
\* handler created the row.
NewDraft(src, from, vof, vnum, regen, origin) ==
    [src |-> src, from_wa |-> from, status |-> "draft",
     approved_at |-> NULL, awaiting_edit |-> FALSE,
     variant_of |-> vof, variant_num |-> vnum, regen_count |-> regen,
     origin |-> origin]

\* .upsert(draft, { onConflict: 'source_message_id', ignoreDuplicates: true })
UpsertIgnore(d) ==
    IF BySource(d.src) = {} THEN Append(drafts, d) ELSE drafts

\* .upsert(newVariant, { onConflict: 'source_message_id' }): a row with
\* that source_message_id takes the payload's columns
Upsert(d) ==
    IF BySource(d.src) = {}
    THEN Append(drafts, d)
    ELSE [i \in RowIds |->
            IF drafts[i].src = d.src
            THEN [drafts[i] EXCEPT !.from_wa = d.from_wa,
                                   !.status = d.status,
                                   !.variant_of = d.variant_of,
                                   !.variant_num = d.variant_num,
                                   !.regen_count = d.regen_count]
            ELSE drafts[i]]

\* .insert(newDraft): source_message_id is unique, a second row with the
\* same value is an error and no row is written
Insert(d) ==
    IF BySource(d.src) = {} THEN Append(drafts, d) ELSE drafts

\* "compute next variant number": one more than the highest variant_num of
\* the parent's variants
NextVariantNum(pid) ==
    LET nums == {drafts[i].variant_num :
                    i \in {j \in RowIds : drafts[j].variant_of = pid}}
    IN  IF nums = {} THEN 1 ELSE Latest(nums) + 1

\* parentRegen >= 3
AtCap(regen) == regen >= RegenCap

Begin(h, m, at) == [hk EXCEPT ![h] = [HkIdle EXCEPT !.pc = at, !.msg = m]]

Done(h) == [hk EXCEPT ![h] = HkIdle]

\* step 7: a message with media becomes a draft (one store call)
MediaDraft(m) ==
    /\ m.kind = "media"
    /\ Room
    /\ drafts' = UpsertIgnore(NewDraft(m.id, m.from, NULL, NULL, 0, m.id))
    /\ UNCHANGED <<hk, rev, clock, pipeVars>>

\* "approve:<id>": the guarded update of status and approved_at
HookApprove(m) ==
    /\ m.kind = "approve"
    /\ drafts' = [i \in RowIds |->
                    IF i = m.target /\ drafts[i].status # "approved"
                    THEN [drafts[i] EXCEPT !.status = "approved",
                                           !.approved_at = clock]
                    ELSE drafts[i]]
    /\ UNCHANGED <<hk, rev, clock, pipeVars>>

\* "request_edit:<id>", first store call: clear the contact's flags
RequestEditClear(h, m) ==
    /\ hk[h].pc = "idle"
    /\ m.kind = "request_edit"
    /\ drafts' = [i \in RowIds |->
                    IF i \in Awaiting(m.from)
                    THEN [drafts[i] EXCEPT !.awaiting_edit = FALSE]
                    ELSE drafts[i]]
    /\ hk' = Begin(h, m, "re_flag")
    /\ UNCHANGED <<rev, clock, pipeVars>>

\* second store call: flag the row by id; .single() fails when there is no
\* such row
RequestEditFlag(h) ==
    /\ hk[h].pc = "re_flag"
    /\ LET t == hk[h].msg.target
       IN  IF t \in RowIds
           THEN /\ drafts' = [drafts EXCEPT ![t].awaiting_edit = TRUE]
                /\ hk' = Done(h)
           ELSE /\ hk' = [hk EXCEPT ![h].pc = "re_latest"]
                /\ UNCHANGED drafts
    /\ UNCHANGED <<rev, clock, pipeVars>>

\* fallback: look up the contact's most recent draft
RequestEditLatest(h) ==
    /\ hk[h].pc = "re_latest"
    /\ LET mine == {i \in RowIds : drafts[i].from_wa = hk[h].msg.from}
       IN  hk' = IF mine = {}
                 THEN Done(h)
                 ELSE [hk EXCEPT ![h].pc = "re_flag_latest",
                                 ![h].pid = Latest(mine)]
    /\ UNCHANGED <<drafts, rev, clock, pipeVars>>

\* fallback: flag it
RequestEditFlagLatest(h) ==
    /\ hk[h].pc = "re_flag_latest"
    /\ drafts' = [drafts EXCEPT ![hk[h].pid].awaiting_edit = TRUE]
    /\ hk' = Done(h)
    /\ UNCHANGED <<rev, clock, pipeVars>>

\* "dontlike:<id>" in part_001 starts with a look-up of the event's own
\* message id: a variant that exists already ends the handler
DontlikeDedupe(h, m) ==
    /\ rev = "part_001"
    /\ hk[h].pc = "idle"
    /\ m.kind = "dontlike"
    /\ Room
    /\ hk' = IF BySource(m.id) # {} THEN hk ELSE Begin(h, m, "dl_parent")
    /\ UNCHANGED <<drafts, rev, clock, pipeVars>>

\* load the parent and apply the regen cap (the first store call of the
\* handler in wa-webhook.js)
DontlikeParent(h, m) ==
    /\ m.kind = "dontlike"
    /\ \/ rev = "wa-webhook.js" /\ hk[h].pc = "idle" /\ Room
       \/ hk[h].pc = "dl_parent" /\ hk[h].msg = m
    /\ LET t == m.target
       IN  hk' = IF t \notin RowIds THEN Done(h)
                 ELSE IF AtCap(drafts[t].regen_count) THEN Done(h)
                 ELSE [hk EXCEPT ![h] =
                          [HkIdle EXCEPT !.pc = "dl_lastvar", !.msg = m,
                                         !.pid = t,
                                         !.pregen = drafts[t].regen_count]]
    /\ UNCHANGED <<drafts, rev, clock, pipeVars>>

\* compute the next variant number
DontlikeLastVar(h) ==
    /\ hk[h].pc = "dl_lastvar"
    /\ NextVariantNum(hk[h].pid) <= MaxVariantNum
    /\ hk' = [hk EXCEPT ![h].pc = "dl_write",
                        ![h].num = NextVariantNum(hk[h].pid)]
    /\ UNCHANGED <<drafts, rev, clock, pipeVars>>

\* write the variant: wa-webhook.js inserts it under a fresh "auto-..."
\* source_message_id, part_001 upserts it under the event's message id
DontlikeWrite(h) ==
    /\ hk[h].pc = "dl_write"
    /\ LET c == hk[h]
           src == IF rev = "wa-webhook.js"
                  THEN <<"auto", 0, Len(drafts) + 1>> ELSE c.msg.id
       IN  drafts' = Upsert(NewDraft(src, c.msg.from, c.pid, c.num,
                                     c.pregen + 1, c.msg.id))
    /\ hk' = Done(h)
    /\ UNCHANGED <<rev, clock, pipeVars>>

\* wa-webhook.js, the early gate: a text from a contact with no row
\* awaiting an edit is answered and dropped
TextGate(h, m) ==
    /\ rev = "wa-webhook.js"
    /\ hk[h].pc = "idle"
    /\ m.kind = "text"
    /\ Room
    /\ hk' = IF Awaiting(m.from) = {} THEN hk ELSE Begin(h, m, "ed_parent")
    /\ UNCHANGED <<drafts, rev, clock, pipeVars>>

\* part_001 starts the edit flow with a look-up of the text's own message
\* id: if a row exists, no variant is created
EditDedupe(h, m) ==
    /\ rev = "part_001"
    /\ hk[h].pc = "idle"
    /\ m.kind = "text"
    /\ Room
    /\ hk' = [hk EXCEPT ![h] =
                [HkIdle EXCEPT !.pc = "ed_parent", !.msg = m,
                               !.skip = (BySource(m.id) # {})]]
    /\ UNCHANGED <<drafts, rev, clock, pipeVars>>

\* find the contact's most recent row that awaits an edit.  (All rows are
\* the contact's own, so part_001's look-ups by other spellings of the
\* number and among all fresh rows find nothing the first one missed.)
\* Without a parent the text goes on to step 7, which in wa-webhook.js
\* makes a draft of it and in part_001 needs media.
EditParent(h) ==
    /\ hk[h].pc = "ed_parent"
    /\ LET aw == Awaiting(hk[h].msg.from)
       IN  hk' = IF aw = {}
                 THEN IF rev = "wa-webhook.js"
                      THEN [hk EXCEPT ![h].pc = "draft_upsert"]
                      ELSE Done(h)
                 ELSE IF hk[h].skip THEN Done(h)
                 ELSE [hk EXCEPT ![h].pc = "ed_clear",
                                 ![h].pid = Latest(aw),
                                 ![h].pregen =
                                     drafts[Latest(aw)].regen_count]
    /\ UNCHANGED <<drafts, rev, clock, pipeVars>>

\* The cap as the edit flow of each revision applies it: part_001 compares
\* and goes on
EditCapStops(regen) == rev = "wa-webhook.js" /\ AtCap(regen)

\* clear the parent's flag, then the regen cap
EditClear(h) ==
    /\ hk[h].pc = "ed_clear"
    /\ drafts' = [drafts EXCEPT ![hk[h].pid].awaiting_edit = FALSE]
    /\ hk' = IF EditCapStops(hk[h].pregen)
             THEN Done(h)
             ELSE [hk EXCEPT ![h].pc = "ed_lastvar"]
    /\ UNCHANGED <<rev, clock, pipeVars>>

\* compute the next variant number
EditLastVar(h) ==
    /\ hk[h].pc = "ed_lastvar"
    /\ NextVariantNum(hk[h].pid) <= MaxVariantNum
    /\ hk' = [hk EXCEPT ![h].pc = "ed_write",
                        ![h].num = NextVariantNum(hk[h].pid)]
    /\ UNCHANGED <<drafts, rev, clock, pipeVars>>

\* write the variant under the text's message id: wa-webhook.js upserts,
\* part_001 inserts
EditWrite(h) ==
    /\ hk[h].pc = "ed_write"
    /\ LET c == hk[h]
           d == NewDraft(c.msg.id, c.msg.from, c.pid, c.num, c.pregen + 1,
                         c.msg.id)
       IN  drafts' = IF rev = "wa-webhook.js" THEN Upsert(d) ELSE Insert(d)
    /\ hk' = Done(h)
    /\ UNCHANGED <<rev, clock, pipeVars>>

\* step 7 for a text that found no parent (wa-webhook.js)
TextDraft(h) ==
    /\ hk[h].pc = "draft_upsert"
    /\ drafts' = UpsertIgnore(NewDraft(hk[h].msg.id, hk[h].msg.from,
                                       NULL, NULL, 0, hk[h].msg.id))
    /\ hk' = Done(h)
    /\ UNCHANGED <<rev, clock, pipeVars>>

-----------------------------------------------------------------------------
(* api/admin-approve.js *)

\* find the draft; an approved row is returned as it is
AdminApproveRead(h, t) ==
    /\ hk[h].pc = "idle"
    /\ hk' = IF t \notin RowIds THEN hk
             ELSE IF drafts[t].status = "approved" THEN hk
             ELSE [hk EXCEPT ![h] =
                     [HkIdle EXCEPT
                        !.pc = "aa_update",
                        !.msg = [id |-> <<"admin", t, 0>>, kind |-> "admin",
                                 from |-> Contact, target |-> t],
                        !.skip = (drafts[t].approved_at # NULL),
                        !.now = clock]]
    /\ UNCHANGED <<drafts, rev, clock, pipeVars>>

\* the update built from the row that was read: approved_at, the time of
\* building it, only if the row had none
AdminApproveUpdate(h) ==
    /\ hk[h].pc = "aa_update"
    /\ LET t == hk[h].msg.target
       IN  drafts' = [drafts EXCEPT
                        ![t].status = "approved",
                        ![t].approved_at = IF hk[h].skip THEN @
                                           ELSE hk[h].now]
    /\ hk' = Done(h)
    /\ UNCHANGED <<rev, clock, pipeVars>>

\* A webhook delivery or an admin request starts
HookStart(h) ==
    \/ \E m \in Inbound : RequestEditClear(h, m)
    \/ \E m \in Inbound : DontlikeDedupe(h, m)
    \/ \E m \in Inbound : DontlikeParent(h, m)
    \/ \E m \in Inbound : TextGate(h, m)
    \/ \E m \in Inbound : EditDedupe(h, m)
    \/ \E t \in ApproveTargets : AdminApproveRead(h, t)

\* The next store call of a handler in flight
HookStep(h) ==
    \/ RequestEditFlag(h)
    \/ RequestEditLatest(h)
    \/ RequestEditFlagLatest(h)
    \/ DontlikeLastVar(h)
    \/ DontlikeWrite(h)
    \/ EditParent(h)
    \/ EditClear(h)
    \/ EditLastVar(h)
    \/ EditWrite(h)
    \/ TextDraft(h)
    \/ AdminApproveUpdate(h)

-----------------------------------------------------------------------------
(* Specifications *)

\* A stage is entered: by the orchestrator (m = "tick") or called directly
StageSelect(p, m) ==
    \/ PlanSelect(p, m)
    \/ ClaimSelect(p, m)
    \/ PostSelect(p, m)

\* A stage's writes
StageWrite(p) ==
    \/ PlanWrite(p)
    \/ ClaimUpdate(p)
    \/ PostUpdate(p)

\* The system in operation: button events and (overlapping) orchestrator
\* ticks
Next ==
    \/ Tick
    \/ \E i \in Ids : Approve(i)
    \/ \E i \in Ids : PostNow(i)
    \/ \E i \in Ids : AiSched(i)
    \/ \E p \in Procs : StageSelect(p, "tick")
    \/ \E p \in Procs : StageWrite(p)

Spec == Init /\ [][Next]_vars

\* Rows as the buttons leave them: approved and routed to the planner,
\* approved and routed to "now" at Clock0, or not yet approved
StartRows ==
    {[NewRow EXCEPT !.status = "approved", !.schedule_strategy = "ai"],
     [NewRow EXCEPT !.status = "approved", !.schedule_strategy = "now",
                    !.scheduled_at = Clock0],
     NewRow}

\* Two invocations at a time start from rows the buttons have approved:
\* two of every three rows are routed to the planner, the third to "now".
RoutedRow(i) ==
    IF i % 3 = 0
    THEN [NewRow EXCEPT !.status = "approved", !.schedule_strategy = "now",
                        !.scheduled_at = Clock0]
    ELSE [NewRow EXCEPT !.status = "approved", !.schedule_strategy = "ai"]

InitStages ==
    /\ slot = SlotIdle
    /\ quiet = QuietIdle
    /\ rows = [i \in Ids |-> RoutedRow(i)]
    /\ clock = Clock0
    /\ ProcInit
    /\ HistInit
    /\ HookInit

\* One caller at a time starts from any mix of rows
InitSeq ==
    /\ slot = SlotIdle
    /\ quiet = QuietIdle
    /\ rows \in [Ids -> StartRows]
    /\ clock = Clock0
    /\ ProcInit
    /\ HistInit
    /\ HookInit

NextStages ==
    \/ Tick
    \/ \E p \in Procs, m \in {"direct", "tick"} : StageSelect(p, m)
    \/ \E p \in Procs : StageWrite(p)

SpecStages == InitStages /\ [][NextStages]_vars

\* One caller at a time: direct stage calls made one after the other
NextSeq ==
    \/ Tick
    \/ StageSelect("a", "direct")
    \/ StageWrite("a")

SpecSeq == InitSeq /\ [][NextSeq]_vars

\* Rows as the buttons leave them, the draft on which "Let AI schedule"
\* was pressed before "Approve" among them
CallRows ==
    StartRows \cup {[NewRow EXCEPT !.schedule_strategy = "ai"]}

InitCall ==
    /\ slot = SlotIdle
    /\ quiet = QuietIdle
    /\ rows \in [Ids -> CallRows]
    /\ clock = Clock0
    /\ ProcInit
    /\ HistInit
    /\ HookInit

\* Stage calls made one at a time on rows the buttons keep changing
NextCall ==
    \/ Tick
    \/ ButtonEvent
    \/ CallPlan
    \/ CallClaim
    \/ CallReturn

SpecCall == InitCall /\ [][NextCall]_vars

\* Calls of the scheduling functions on sampled inputs
NextSlot ==
    \/ CallNextSlot
    \/ CallWithinQuiet
    \/ CallReturn

SpecSlot == Init /\ [][NextSlot]_vars

\* Calls of loadWindows and of the timezone helpers on sampled inputs
NextLib ==
    \/ CallLoadWindows
    \/ CallIsWeekend
    \/ CallBuildISO
    \/ CallStage
    \/ CallCron
    \/ CallReturn

SpecLib == Init /\ [][NextLib]_vars

\* A thread of three regenerations: a draft and the variants three
\* dislikes made of it, each of the one before
Chain ==
    [i \in 1..ChainLen |->
        NewDraft(IF i = 1 THEN <<"media", 0, 0>> ELSE <<"auto", 0, i>>,
                 Contact, IF i = 1 THEN NULL ELSE i - 1,
                 IF i = 1 THEN NULL ELSE 1, i - 1,
                 IF i = 1 THEN <<"media", 0, 0>>
                 ELSE <<"dontlike", i - 1, 0>>)]

\* The webhook and the admin endpoint at work on an empty table or on a
\* thread at the cap, under either revision
InitHook ==
    /\ slot = SlotIdle
    /\ quiet = QuietIdle
    /\ rows = [i \in Ids |-> NewRow]
    /\ clock = Clock0
    /\ ProcInit
    /\ HistInit
    /\ drafts \in {<< >>, Chain}
    /\ hk = [h \in Hooks |-> HkIdle]
    /\ rev \in Revs
    /\ orch = "cron-orchestrator.js"

NextHook ==
    \/ Tick
    \/ \E m \in Inbound : MediaDraft(m)
    \/ \E m \in Inbound : HookApprove(m)
    \/ \E h \in Hooks : HookStart(h)
    \/ \E h \in Hooks : HookStep(h)

SpecHook == InitHook /\ [][NextHook]_vars

\* The system in operation on the rows of a thread: the rows of the pipeline
\* are the first rows of draft_posts, a root and the variants the dislike
\* path made from it.  drafts holds their lineage columns, which no stage
\* and no button handler writes.
InitThread ==
    /\ slot = SlotIdle
    /\ quiet = QuietIdle
    /\ rows = [i \in Ids |-> NewRow]
    /\ clock = Clock0
    /\ ProcInit
    /\ HistInit
    /\ drafts = Chain
    /\ hk = [h \in Hooks |-> HkIdle]
    /\ rev = "wa-webhook.js"
    /\ orch = "cron-orchestrator.js"

SpecThread == InitThread /\ [][Next]_vars

\* One invocation at a time, ticks and direct calls, with store calls that
\* fail, stages that throw and invocations that die, under either revision
\* of the orchestrator
InitTick ==
    /\ slot = SlotIdle
    /\ quiet = QuietIdle
    /\ rows = [i \in Ids |-> RoutedRow(i)]
    /\ clock = Clock0
    /\ ProcInit
    /\ HistInit
    /\ drafts = << >>
    /\ hk = [h \in Hooks |-> HkIdle]
    /\ rev = "wa-webhook.js"
    /\ orch \in Orchs

NextTick ==
    \/ Tick
    \/ \E m \in {"direct", "tick"} : StageSelect("a", m)
    \/ StageWrite("a")
    \/ StageFails("a")
    \/ PlanWriteFails("a")
    \/ Crash("a")

SpecTick == InitTick /\ [][NextTick]_vars

\* One caller at a time: direct stage calls and calls of the read-only
\* modes, each made when the answer of the one before has been read, from
\* rows the buttons have approved and routed
PeekStage ==
    /\ peek = PeekIdle
    /\ \/ Tick
       \/ StageSelect("a", "direct")
       \/ StageWrite("a")

NextPeek ==
    \/ PeekStage
    \/ ReadOnlyCall
    \/ PeekReturn

SpecPeek == InitStages /\ [][NextPeek]_vars

\* Rows the buttons have approved and routed, in turn to the planner and
\* to "now" at Clock0
LiveRow(i) ==
    IF i % 2 = 1
    THEN [NewRow EXCEPT !.status = "approved", !.schedule_strategy = "ai"]
    ELSE [NewRow EXCEPT !.status = "approved", !.schedule_strategy = "now",
                        !.scheduled_at = Clock0]

InitLive ==
    /\ slot = SlotIdle
    /\ quiet = QuietIdle
    /\ rows = [i \in Ids |-> LiveRow(i)]
    /\ clock = Clock0
    /\ ProcInit
    /\ HistInit
    /\ drafts = << >>
    /\ hk = [h \in Hooks |-> HkIdle]
    /\ rev = "wa-webhook.js"
    /\ orch \in Orchs

\* The planned rows whose time has not come
Waiting ==
    {i \in Ids : /\ rows[i].status = "approved"
                 /\ rows[i].scheduled_at # NULL
                 /\ rows[i].scheduled_at > clock
                 /\ rows[i].queued_at = NULL}

\* Time passes until the next planned time has come
TimePasses ==
    /\ Waiting # {}
    /\ \E i \in Waiting :
         /\ \A j \in Waiting : rows[i].scheduled_at <= rows[j].scheduled_at
         /\ clock' = rows[i].scheduled_at
    /\ UNCHANGED <<envVars, callVars, rows, procVars, histVars>>

\* The scheduled invocation starts: the orchestrator's GET with its limit
\* of 50, or with a scaled limit
TickStarts(p) == \E m \in {"tick", "round"} : PlanSelect(p, m)

\* The invocation goes on: the next store call of the stage, the next
\* stage of the tick
TickRuns(p) ==
    \/ \E m \in {"tick", "round"} : ClaimSelect(p, m)
    \/ \E m \in {"tick", "round"} : PostSelect(p, m)
    \/ StageWrite(p)

\* Ticks that keep coming while store calls fail, stages throw and
\* invocations die (MaxFaults times in all)
NextLive ==
    \/ TimePasses
    \/ TickStarts("a")
    \/ TickRuns("a")
    \/ StageFails("a")
    \/ PlanWriteFails("a")
    \/ Crash("a")

\* Ticks keep being invoked (an idle scheduler can always start one), a
\* tick that has started runs on unless it fails or dies, and time passes
Fairness ==
    /\ []<>(pc["a"] # "idle")
    /\ WF_vars(TickRuns("a"))
    /\ WF_vars(TimePasses)

SpecLive == InitLive /\ [][NextLive]_vars /\ Fairness

\* A button is pressed while no tick is in flight
Pressed ==
    /\ pc["a"] = "idle"
    /\ \E i \in Ids : Approve(i) \/ PostNow(i)

\* "Approve" and "Post now" pressed between ticks whose store calls all
\* succeed, on rows the buttons have left in any state; the orchestrator's
\* limit of 50 is above the number of rows
NextNow ==
    \/ Tick
    \/ Pressed
    \/ PlanSelect("a", "tick")
    \/ TickRuns("a")

\* A tick that has started runs on
SpecNow == InitCall /\ [][NextNow]_vars /\ WF_vars(TickRuns("a"))

-----------------------------------------------------------------------------
(* Civil time as the specification states it *)

CivilDay(tz, t) == (t + OffsetAt(tz, t)) \div 86400

LocalTod(tz, t) == (t + OffsetAt(tz, t)) % 86400

\* 0 = Sunday .. 6 = Saturday
CivilDow(D) == (D + 1) % 7

IsSatSun(D) == CivilDow(D) \in {0, 6}

TodOf(t) == t[1] * 3600 + t[2] * 60

\* The instants at which the zone's clocks show time of day tod on date D
LocalInstants(tz, D, tod) ==
    {t \in {D * 86400 + tod - tz.before, D * 86400 + tod - tz.after} :
        CivilDay(tz, t) = D /\ LocalTod(tz, t) = tod}

RangeOf(sq) == {sq[k] : k \in 1..Len(sq)}

-----------------------------------------------------------------------------
(* Properties of the pipeline *)

\* C1 -- Idempotent claim: whatever the interleaving of claim invocations,
\* no row is listed in two claim responses, and a row whose queued_at is
\* set is listed in exactly one.
C1_IdempotentClaim ==
    \A i \in Ids :
        /\ claimRet[i] <= 1
        /\ (rows[i].queued_at # NULL) <=> (claimRet[i] = 1)

\* Two claimers selected the same row; one has claimed it and the other's
\* guarded update is still to run.
C1_Witness ==
    \E p \in Procs, i \in Ids :
        /\ pc[p] = "claim_update"
        /\ i \in ids[p]
        /\ claimRet[i] = 1
        /\ rows[i].queued_at # NULL

\* C2 -- At-most-once publish: across sequential, retried and overlapping
\* post invocations (overlapping ticks included) posted_at of a row is
\* written at most once and the row is in at most one post response.
C2_AtMostOncePublish ==
    \A i \in Ids : postWrites[i] <= 1 /\ postRet[i] <= 1

\* Two publishers selected the same row; one has posted it and the other's
\* guarded update is still to run.
C2_Witness ==
    \E p \in Procs, i \in Ids :
        /\ pc[p] = "post_update"
        /\ i \in ids[p]
        /\ postWrites[i] = 1
        /\ rows[i].posted_at # NULL

\* The rows a planner has already issued its guarded write for
Attempted(p) ==
    IF pc[p] = "plan_write"
    THEN {computed[p][j].id : j \in 1..(idx[p] - 1)}
    ELSE {}

\* The step is a turn of p's write loop
PlanWriteStep(p) ==
    /\ pc[p] = "plan_write"
    /\ <<pc[p], idx[p]>> # <<pc'[p], idx'[p]>>

\* C3 -- Planner cannot double-assign: of the planners that selected the
\* same row exactly one guarded write of scheduled_at succeeds; it stores
\* the value that planner computed, and a write that finds the field set
\* changes nothing.
C3_NoDoubleAssign ==
    /\ [](\A i \in Ids :
            /\ planWrites[i] <= 1
            /\ \A p \in Procs :
                 i \in Attempted(p) =>
                    planWrites[i] = 1 /\ rows[i].scheduled_at # NULL)
    /\ [][\A p \in Procs :
            PlanWriteStep(p) =>
                LET u == computed[p][idx[p]]
                IN  IF rows[u.id].scheduled_at = NULL
                    THEN rows' = [rows EXCEPT ![u.id].scheduled_at =
                                                  u.scheduled_at]
                    ELSE rows' = rows]_vars

\* Two planners computed different times for the same row; one has written
\* its time and the other's guarded write is still to run.
C3_Witness ==
    \E p \in Procs, q \in Procs :
        /\ p # q
        /\ pc[q] = "plan_write"
        /\ LET u == computed[q][idx[q]]
           IN  /\ u.id \in Attempted(p)
               /\ planWrites[u.id] = 1
               /\ rows[u.id].scheduled_at # NULL
               /\ rows[u.id].scheduled_at # u.scheduled_at

\* C4 -- Lifecycle order: in every reachable state posted_at set implies
\* queued_at set, queued_at set implies scheduled_at set, and scheduled_at
\* set implies status = approved.
C4_LifecycleOrder ==
    \A i \in Ids :
        /\ rows[i].posted_at # NULL => rows[i].queued_at # NULL
        /\ rows[i].queued_at # NULL => rows[i].scheduled_at # NULL
        /\ rows[i].scheduled_at # NULL => rows[i].status = "approved"

\* C5 -- Write-once lifecycle fields: no step of the planner, claimer,
\* publisher or button handlers changes or clears a scheduled_at, queued_at
\* or posted_at that is already set.
C5_WriteOnce ==
    [][\A i \in Ids :
         /\ rows[i].scheduled_at # NULL =>
                rows'[i].scheduled_at = rows[i].scheduled_at
         /\ rows[i].queued_at # NULL =>
                rows'[i].queued_at = rows[i].queued_at
         /\ rows[i].posted_at # NULL =>
                rows'[i].posted_at = rows[i].posted_at]_vars

\* C22 -- Claimed items are due at claim time: whenever the claimer's
\* update sets queued_at on a row, the row is approved and its scheduled_at
\* is set and not later than the claimer's now, whatever the planner, the
\* postnow / aisched handlers and other claimers do between the claimer's
\* select and its update.
C22_ClaimedAreDue ==
    [][\A p \in Procs :
          ClaimUpdate(p) =>
             \A i \in Ids :
                (rows[i].queued_at = NULL /\ rows'[i].queued_at # NULL) =>
                   /\ rows[i].status = "approved"
                   /\ rows[i].scheduled_at # NULL
                   /\ rows[i].scheduled_at <= nowIso[p]]_vars

\* C6 -- Stage re-run idempotence, one caller: a row is listed in at most
\* one plan response, one claim response and one post response (the run
\* that set the field; every later run reports 0 for it), and a stage's
\* write never changes a row whose field of that stage is already set.
C6_RerunIdempotent ==
    /\ [](\A i \in Ids :
            planRet[i] <= 1 /\ claimRet[i] <= 1 /\ postRet[i] <= 1)
    /\ [][\A i \in Ids :
            /\ (pc["a"] = "plan_write" /\ rows[i].scheduled_at # NULL)
                  => rows'[i] = rows[i]
            /\ (pc["a"] = "claim_update" /\ rows[i].queued_at # NULL)
                  => rows'[i] = rows[i]
            /\ (pc["a"] = "post_update" /\ rows[i].posted_at # NULL)
                  => rows'[i] = rows[i]]_vars

\* A row planned by the planner has gone through all three stages, each
\* reported once, and the caller is free to run any stage again.
C6_Witness ==
    \E i \in Ids :
        /\ rows[i].schedule_strategy = "ai"
        /\ planRet[i] = 1 /\ claimRet[i] = 1 /\ postRet[i] = 1
        /\ rows[i].posted_at # NULL
        /\ pc["a"] = "idle"

-----------------------------------------------------------------------------
(* Properties of a stage call made alone *)

Smaller(a, b) == IF a < b THEN a ELSE b

\* The rows of table T due at instant now
DueAt(T, now) ==
    {i \in Ids :
        /\ T[i].status = "approved"
        /\ T[i].scheduled_at # NULL
        /\ T[i].scheduled_at <= now
        /\ T[i].queued_at = NULL}

\* C27 -- Claimer selection and order: with no concurrent activity,
\* claim(limit) marks and returns exactly min(limit, number due) of the
\* rows due at its now, none of them due later than a due row it leaves,
\* and lists them in ascending order of scheduled_at; no other row changes.
C27_ClaimOrder ==
    (slot.pc = "done" /\ slot.fn = "claim") =>
        LET T == slot.before
            due == DueAt(T, slot.now)
            items == slot.items
            got == RangeOf(items)
        IN  /\ Len(items) = Cardinality(got)
            /\ Cardinality(got) = Smaller(slot.limit, Cardinality(due))
            /\ got \subseteq due
            /\ \A x \in got, y \in due \ got :
                  T[x].scheduled_at <= T[y].scheduled_at
            /\ \A j, k \in 1..Len(items) :
                  j < k => T[items[j]].scheduled_at <= T[items[k]].scheduled_at
            /\ \A i \in Ids :
                  rows[i] = IF i \in got
                            THEN [T[i] EXCEPT !.queued_at = slot.now]
                            ELSE T[i]

\* A claim has returned two rows, the one with the higher id first because
\* it was due earlier.
C27_Witness ==
    /\ slot.pc = "done" /\ slot.fn = "claim"
    /\ Len(slot.items) = 2
    /\ slot.items[1] > slot.items[2]
    /\ slot.before[slot.items[1]].scheduled_at
          < slot.before[slot.items[2]].scheduled_at

\* The rows of table T the planner is to plan
Eligible(T) ==
    {i \in Ids :
        /\ T[i].status = "approved"
        /\ T[i].schedule_strategy = "ai"
        /\ T[i].scheduled_at = NULL}

\* C28 -- Planner selection is FIFO: plan(limit) writes scheduled_at only
\* on rows that were approved, routed to "ai" and unscheduled when it
\* selected, on min(limit, number eligible) of them, lowest ids first: no
\* eligible row is left while one with a higher id is planned, and no
\* draft row and no row routed to "now" or not routed gets a time.
C28_PlannerFifo ==
    (slot.pc = "done" /\ slot.fn = "plan") =>
        LET T == slot.before
            elig == Eligible(T)
            written == {i \in Ids : rows[i].scheduled_at # T[i].scheduled_at}
        IN  /\ written \subseteq elig
            /\ Cardinality(written) = Smaller(slot.limit, Cardinality(elig))
            /\ \A x \in written, y \in elig \ written : x < y
            /\ \A i \in written :
                  /\ rows[i].scheduled_at # NULL
                  /\ rows[i] = [T[i] EXCEPT !.scheduled_at =
                                              rows[i].scheduled_at]
            /\ \A i \in Ids \ written : rows[i] = T[i]
            /\ IdsOf(slot.items) = written

\* A plan run with a limit below the backlog has planned the eligible row
\* with the lowest id and left a higher one.
C28_Witness ==
    /\ slot.pc = "done" /\ slot.fn = "plan"
    /\ \E x, y \in Eligible(slot.before) :
          /\ x < y
          /\ rows[x].scheduled_at # NULL
          /\ rows[y].scheduled_at = NULL

-----------------------------------------------------------------------------
(* Properties of the slot scheduler *)

IsWrapping(hours) == Len(hours) = 2 /\ TodOf(hours[2]) < TodOf(hours[1])

\* C7 -- Quiet-hours wrap: for a wrapping window withinQuiet answers true
\* exactly when the local time of day is at or after the start or at or
\* before the end (23:00 and 05:00 are quiet for 21:00-06:30, 12:00 is not).
C7_QuietWrap ==
    (quiet.pc = "done" /\ IsWrapping(quiet.hours)) =>
        (quiet.out <=>
            \/ LocalTod(quiet.tz, quiet.d) >= TodOf(quiet.hours[1])
            \/ LocalTod(quiet.tz, quiet.d) <= TodOf(quiet.hours[2]))

GapOf(windows) == windows.min_gap_hours * 3600

\* Some candidate of the call lies outside the quiet hours and respects
\* the cooldown
HasSurvivor(c) ==
    \E dt \in RangeOf(Candidates(c.windows, c.tz, c.nowUtc)) :
        /\ ~withinQuiet(c.tz, dt, c.windows.quiet_hours)
        /\ (c.lastAt = NULL \/ dt - c.lastAt >= GapOf(c.windows))

\* Every candidate of the call violates the cooldown
AllViolateCooldown(c) ==
    \A dt \in RangeOf(Candidates(c.windows, c.tz, c.nowUtc)) :
        dt - c.lastAt < GapOf(c.windows)

\* C8 as stated -- the returned instant is not earlier than lastAt + G hours
\* unless every candidate of both days violates the cooldown.
C8_CooldownAsStated ==
    (slot.pc = "done" /\ slot.lastAt # NULL /\ ~AllViolateCooldown(slot)) =>
        slot.out >= slot.lastAt + GapOf(slot.windows)

\* C8 -- Cooldown enforcement: when some candidate passes both filters the
\* pick is not earlier than lastAt + G hours, so the returned instant is
\* not earlier than lastAt + G hours - jitter_sec seconds.
C8_Cooldown ==
    (slot.pc = "done" /\ slot.lastAt # NULL /\ HasSurvivor(slot)) =>
        slot.out >= slot.lastAt + GapOf(slot.windows)
                        - slot.windows.jitter_sec

\* The first candidate violates the cooldown and a later one is returned.
C8_Witness ==
    /\ slot.pc = "done" /\ slot.lastAt # NULL /\ HasSurvivor(slot)
    /\ LET cands == Candidates(slot.windows, slot.tz, slot.nowUtc)
       IN  /\ cands[1] - slot.lastAt < GapOf(slot.windows)
           /\ slot.out > cands[1] + slot.windows.jitter_sec

\* The inputs the calls are made with
SlotInputs ==
    {[windows |-> w, nowUtc |-> n, tz |-> z, lastAt |-> l] :
        w \in Policies, n \in NowSamples, z \in Zones,
        l \in UNION {LastAtSamples(n2) : n2 \in NowSamples}}

IsFallback(c) == ~HasSurvivor(c)

\* C9 -- Fallback is observable: what a call in the fallback case returns
\* is returned by no call that selected a filtered candidate.
C9_FallbackObservable ==
    (slot.pc = "done" /\ IsFallback(slot)) =>
        \A c \in SlotInputs :
            ~IsFallback(c) =>
                \A rnd \in RndSamples(c.windows), sgn \in {-1, 1} :
                    nextSlotSimple(c.windows, c.nowUtc, c.tz, c.lastAt,
                                   rnd, sgn) # slot.out

\* The call is made as the planner makes it: with the zone of the
\* deployment and without a previous send (cron-runner.js 121)
IsPlanCall(c) == c.tz = TZ /\ c.lastAt = NULL

\* C19 -- Planned times are in the future: the instant nextSlotSimple
\* returns to a plan run is strictly later than the nowUtc the run passed,
\* for every policy including the default jitter of 720 seconds.
C19_PlannedInFuture ==
    (slot.pc = "done" /\ IsPlanCall(slot)) => slot.out > slot.nowUtc

\* The earliest instant of a set
Earliest(S) == CHOOSE x \in S : \A y \in S : x <= y

\* The pick the rule asks for, from the candidates and the filters of the
\* call
RulePick(c) ==
    LET cands == RangeOf(Candidates(c.windows, c.tz, c.nowUtc))
        ok == {dt \in cands : Passes(c.windows, c.tz, c.lastAt, dt)}
    IN  IF ok # {} THEN Earliest(ok)
        ELSE IF cands # {} THEN Earliest(cands)
        ELSE c.nowUtc + 30 * 60

\* C23 -- Slot pick rule: what nextSlotSimple returns is, within the
\* jitter, the chronologically earliest candidate that passes both
\* filters, or else the earliest candidate, or else now + 30 minutes, for
\* slot lists in any order.
C23_PickRule ==
    slot.pc = "done" =>
        /\ Pick(slot.windows, slot.tz, slot.nowUtc, slot.lastAt)
              = RulePick(slot)
        /\ Abs(slot.out - RulePick(slot)) <= slot.windows.jitter_sec

\* The slot list of civil date D
ListOf(windows, D) ==
    IF IsSatSun(D) THEN windows.weekend ELSE windows.weekday

\* The configured local times on today's and tomorrow's civil dates in the
\* zone, strictly after now
CivilCandidates(c) ==
    LET today == CivilDay(c.tz, c.nowUtc)
        OnDate(D) ==
            UNION {LocalInstants(c.tz, D, TodOf(t)) :
                      t \in RangeOf(ListOf(c.windows, D))}
    IN  {dt \in OnDate(today) \cup OnDate(today + 1) : dt > c.nowUtc}

\* C24 -- Candidate enumeration: in either zone the candidates of
\* nextSlotSimple are exactly the configured local times on today's and
\* tomorrow's civil dates in the zone that lie strictly after now; none is
\* on yesterday's civil date and none is at or before now.
C24_CandidateEnumeration ==
    slot.pc = "done" =>
        LET cands == RangeOf(Candidates(slot.windows, slot.tz, slot.nowUtc))
        IN  /\ cands = CivilCandidates(slot)
            /\ \A dt \in cands :
                  /\ dt > slot.nowUtc
                  /\ CivilDay(slot.tz, dt) >= CivilDay(slot.tz, slot.nowUtc)

\* C32 -- Jitter bound: for every policy and input the instant
\* nextSlotSimple returns is at most jitter_sec seconds from the picked
\* candidate, before or after it; with jitter_sec = 0 it is the picked
\* candidate.
C32_JitterBound ==
    slot.pc = "done" =>
        LET pick == Pick(slot.windows, slot.tz, slot.nowUtc, slot.lastAt)
        IN  /\ slot.out - pick <= slot.windows.jitter_sec
            /\ pick - slot.out <= slot.windows.jitter_sec
            /\ slot.windows.jitter_sec = 0 => slot.out = pick

\* A call has returned an instant earlier than the one it picked, by the
\* most the draw allows.
C32_Witness ==
    /\ slot.pc = "done"
    /\ slot.windows.jitter_sec > 0
    /\ Pick(slot.windows, slot.tz, slot.nowUtc, slot.lastAt) - slot.out
          = slot.windows.jitter_sec - 1

\* C10 -- Weekday/weekend slot selection: each of the two dates the slots
\* are mapped onto gets the weekend list iff that date is a Saturday or
\* Sunday in the zone; with weekday 18:30, weekend 10:30 and a Saturday now
\* before 10:30 local, the un-jittered result is that Saturday's 10:30.
C10_WeekendSlots ==
    slot.pc = "done" =>
        /\ \A dOffset \in {0, 1} :
             LET dayRef == DayRef(slot.tz, slot.nowUtc, dOffset)
             IN  isWeekend(slot.tz, dayRef)
                    <=> IsSatSun(partsInTZ(slot.tz, dayRef).D)
        /\ ( /\ slot.windows = [DEFAULTS EXCEPT !.jitter_sec = 0]
             /\ slot.lastAt = NULL
             /\ CivilDow(CivilDay(slot.tz, slot.nowUtc)) = 6
             /\ LocalTod(slot.tz, slot.nowUtc) < TodOf(<<10, 30>>) )
           => slot.out \in LocalInstants(slot.tz,
                                         CivilDay(slot.tz, slot.nowUtc),
                                         TodOf(<<10, 30>>))

-----------------------------------------------------------------------------
(* The webhook's draft rows *)

\* C11 Regen cap: no row has a regen_count above the cap of 3, whichever
\* regeneration path (dislike button or edit text) made the row.
C11_RegenCap ==
    \A i \in RowIds : drafts[i].regen_count <= RegenCap

\* C12 Single awaiting-edit row: under any sequence or interleaving of
\* request_edit events and edit-text messages, at most one row of a contact
\* has awaiting_edit = true.
C12_SingleAwaiting ==
    Cardinality(Awaiting(Contact)) <= 1

\* A step of an approval: the webhook's approve button or the update of the
\* admin endpoint
ApprovalStep ==
    \/ \E m \in Inbound : HookApprove(m)
    \/ \E h \in Hooks : AdminApproveUpdate(h)

\* C13 Approval happens exactly once: whatever the sequence or interleaving
\* of approvals (webhook approve button, admin-approve endpoint), an
\* approved_at once set is never overwritten and an approval applied to an
\* approved row changes no field of it.
C13_ApproveOnce ==
    [][ApprovalStep =>
          \A i \in RowIds :
             /\ drafts[i].approved_at # NULL =>
                   drafts'[i].approved_at = drafts[i].approved_at
             /\ drafts[i].status = "approved" => drafts'[i] = drafts[i]]_vars

\* The deliveries the rule is about: media, edit texts, dislike buttons
Creating == {m \in Inbound : m.kind \in {"media", "text", "dontlike"}}

\* The rows made for inbound message m
RowsOf(T, m) == {i \in 1..Len(T) : T[i].origin = m.id}

\* A step of the handler of a delivery of m
HandlerStep(m) ==
    \/ MediaDraft(m)
    \/ \E h \in Hooks : hk[h].msg = m /\ hk'[h] # hk[h]

\* C20 Inbound idempotency: however often the same media message, edit
\* text or dislike event is delivered, there is at most one row for it, and
\* the handler of a delivery changes no field of a row that exists for the
\* message already.
C20_InboundIdempotent ==
    [][\A m \in Creating :
          /\ Cardinality(RowsOf(drafts', m)) <= 1
          /\ HandlerStep(m) =>
                \A i \in RowsOf(drafts, m) : drafts'[i] = drafts[i]]_vars

\* The variants made from row pid
Siblings(pid) == {i \in RowIds : drafts[i].variant_of = pid}

\* C29 -- Variant lineage: every variant made from parent P by the dislike
\* or the edit path has variant_of = P.id and regen_count = P.regen_count
\* + 1, and in every reachable state, concurrent dislike and edit events
\* on one parent included, the variant_num values of the rows sharing a
\* variant_of are pairwise distinct and are 1, 2, 3, ...
C29_VariantLineage ==
    /\ \A i \in RowIds :
          drafts[i].variant_of # NULL =>
             /\ drafts[i].variant_of \in RowIds
             /\ drafts[i].regen_count
                   = drafts[drafts[i].variant_of].regen_count + 1
    /\ \A pid \in RowIds :
          /\ \A i, j \in Siblings(pid) :
                i # j => drafts[i].variant_num # drafts[j].variant_num
          /\ {drafts[i].variant_num : i \in Siblings(pid)}
                = 1..Cardinality(Siblings(pid))

\* The rows reached from row i by following variant_of at most n times
RECURSIVE Ancestors(_, _)
Ancestors(i, n) ==
    IF n = 0 \/ drafts[i].variant_of \notin RowIds THEN {}
    ELSE {drafts[i].variant_of} \cup Ancestors(drafts[i].variant_of, n - 1)

\* The variant rows that descend from row r
Descendants(r) == {i \in RowIds : r \in Ancestors(i, Len(drafts))}

\* C30 -- Regenerations per lineage are bounded: whatever dislike and edit
\* events arrive, repeated dislikes of one row included, the variant rows
\* descending from one root are never more than the regen cap of 3.
C30_LineageBounded ==
    \A r \in RowIds :
        drafts[r].variant_of = NULL =>
            Cardinality(Descendants(r)) <= RegenCap

-----------------------------------------------------------------------------
(* The orchestrator's tick *)

\* The stages whose answers the orchestrator holds, in the order they came
StagesOf(sq) == [k \in 1..Len(sq) |-> sq[k].stage]

\* C14 Fixed stage order: in every tick the planner has answered before
\* the claimer's first read and the claimer has answered before the
\* publisher's read; a tick is never in a stage without the answers of the
\* stages before it, and never in one whose answer it already holds.
C14_StageOrder ==
    \A p \in Procs :
       mode[p] = "tick" =>
          /\ pc[p] = "plan_write" => StagesOf(res[p]) = << >>
          /\ pc[p] \in {"claim_select", "claim_update"} =>
                StagesOf(res[p]) = <<"plan">>
          /\ pc[p] \in {"post_select", "post_update"} =>
                StagesOf(res[p]) = <<"plan", "claim">>

\* A tick is about to stamp rows that its claimer queued after its planner
\* had answered
C14_Witness ==
    /\ mode["a"] = "tick"
    /\ pc["a"] = "post_update"
    /\ StagesOf(res["a"]) = <<"plan", "claim">>
    /\ \E i \in ids["a"] : rows[i].queued_at # NULL /\ planWrites[i] > 0

\* C15 Stage failure isolation: when a stage of a tick fails (it throws, or
\* its store call errors), the failure is kept as that stage's result and
\* the tick goes on to the stage after it.
C15_FailureIsolation ==
    [][\A p \in Procs :
          (pc[p] = "idle" \/ mode[p] = "tick") /\ StageFails(p) =>
             LET stage == StageOfPc(pc[p])
             IN  /\ pc'[p] = NextStage(stage)
                 /\ stage # "post" =>
                       res'[p] = Append(res[p],
                                        [stage |-> stage, ok |-> FALSE])]_vars

\* C17 Per-item publish failure isolation: when the publish of one item of
\* a batch fails, that item gets posted_error and the other items of the
\* batch are stamped posted.
C17_PublishIsolation ==
    [][\A p \in Procs :
          PostUpdateFails(p) =>
             \E bad \in ids[p] :
                /\ rows'[bad].posted_error # "null"
                /\ \A i \in ids[p] \ {bad} :
                      rows[i].posted_at = NULL =>
                         rows'[i].posted_at # NULL]_vars

-----------------------------------------------------------------------------
(* The read-only modes *)

\* The sets of rows the write mode of a stage can select from this state
WouldProcess(kind, limit) ==
    IF kind \in {"plan_peek", "plan_dry_run"}
    THEN FirstBy({i \in Ids : NeedsPlan(rows[i])}, KeyId, limit)
    ELSE IF kind = "claim_peek"
    THEN FirstBy({i \in Ids : IsDue(rows[i], clock)},
                 [i \in Ids |-> rows[i].scheduled_at], limit)
    ELSE FirstBy({i \in Ids : IsPending(rows[i])},
                 [i \in Ids |-> rows[i].queued_at], limit)

\* C16 Read-only modes have no side effects: planner peek and dry run,
\* claimer peek, publisher peek and dry run leave every row as it was and
\* answer with rows the write mode would process from the same state.
C16_ReadOnly ==
    [][ReadOnlyCall =>
          /\ rows' = rows
          /\ drafts' = drafts
          /\ peek'.out \in WouldProcess(peek'.kind, peek'.limit)]_vars

\* A claimer peek has answered with a due row, a publisher dry run with a
\* pending one, and the rows are still unclaimed and unposted
C16_Witness ==
    /\ peek.kind \in {"claim_peek", "post_dry_run"}
    /\ peek.out # {}
    /\ \A i \in peek.out :
          IF peek.kind = "claim_peek"
          THEN IsDue(rows[i], clock)
          ELSE IsPending(rows[i])

\* The failed write leaves the table as it is, the row is one the next
\* plan run selects, and the loop goes on with the rest of the batch
FailedWriteSkipsRow(p) ==
    LET u == computed[p][idx[p]]
    IN  /\ rows' = rows
        /\ NeedsPlan(rows'[u.id])
        /\ idx[p] < Len(computed[p]) =>
              /\ pc'[p] = "plan_write"
              /\ computed'[p] = computed[p]
              /\ idx'[p] = idx[p] + 1

\* C31 -- Planner write failure leaves the row plannable: when the guarded
\* write of one row fails with a store error the row keeps scheduled_at
\* null and is selected by the next plan run, the rest of the batch is
\* still written, and the run does not list the row as planned: a row a
\* plan response lists has a scheduled_at.
C31_WriteFailure ==
    /\ [][PlanWriteFails("a") => FailedWriteSkipsRow("a")]_vars
    /\ [](\A i \in Ids : planRet[i] > 0 => rows[i].scheduled_at # NULL)

\* C36 -- Approval is never undone: no step of a webhook handler, the admin
\* endpoint or a pipeline stage takes an approved row back to draft or
\* changes its lineage or regeneration fields, redelivered edit texts and
\* dislikes included.
C36_ApprovalKept ==
    [][\A i \in RowIds :
         drafts[i].status = "approved" =>
            /\ i \in 1..Len(drafts')
            /\ drafts'[i].status = "approved"
            /\ drafts'[i].variant_of = drafts[i].variant_of
            /\ drafts'[i].variant_num = drafts[i].variant_num
            /\ drafts'[i].regen_count = drafts[i].regen_count]_vars

\* C37 -- Lineage is acyclic: no row is its own variant_of, and following
\* variant_of from any row never comes back to that row, so a root is
\* reached within as many steps as there are rows; redelivered messages
\* included.
C37_LineageAcyclic ==
    \A i \in RowIds :
        /\ drafts[i].variant_of # i
        /\ i \notin Ancestors(i, Len(drafts))

\* The root of row i's thread
Root(i) ==
    LET up == {j \in Ancestors(i, Len(drafts)) : drafts[j].variant_of = NULL}
    IN  IF drafts[i].variant_of = NULL THEN i ELSE CHOOSE j \in up : TRUE

\* C38 -- At most one post per lineage: among a root and all the variants
\* that descend from it, at most one row ever has posted_at set.
C38_OnePostPerLineage ==
    \A i, j \in Ids :
        (/\ Root(i) = Root(j)
         /\ rows[i].posted_at # NULL
         /\ rows[j].posted_at # NULL) => i = j

\* C35 -- Nothing is published early: in every reachable state, under any
\* interleaving of the planner, the claimer, the publisher and the postnow
\* and aisched handlers, a row with queued_at set has a scheduled_at not
\* later than its queued_at, and a row with posted_at set has
\* scheduled_at <= queued_at <= posted_at.
C35_NothingEarly ==
    \A i \in Ids :
        /\ rows[i].queued_at # NULL =>
              /\ rows[i].scheduled_at # NULL
              /\ rows[i].scheduled_at <= rows[i].queued_at
        /\ rows[i].posted_at # NULL =>
              /\ rows[i].queued_at # NULL
              /\ rows[i].scheduled_at # NULL
              /\ rows[i].scheduled_at <= rows[i].queued_at
              /\ rows[i].queued_at <= rows[i].posted_at

\* C34 -- Planner report is exact: the rows the plan responses list are the
\* rows the plan runs wrote, so a row is listed as planned no more often than
\* it was written; the run whose guarded write met a row that already had a
\* scheduled_at does not list it.
C34_ReportExact ==
    \A i \in Ids : planRet[i] <= planWrites[i]

-----------------------------------------------------------------------------
(* Properties of loadWindows and of the timezone helpers *)

\* C21 -- Policy source never throws: whatever the read of settings comes
\* to, loadWindows throws nothing and returns a value with every key of
\* the policy: the defaults when the read fails, finds no row or no value,
\* and the stored keys over the defaults otherwise.
C21_LoadWindows ==
    (slot.pc = "done" /\ slot.fn = "loadWindows") =>
        /\ ~slot.out.threw
        /\ DOMAIN DEFAULTS \subseteq DOMAIN slot.out.value
        /\ slot.read.kind # "value" => slot.out.value = DEFAULTS
        /\ slot.read.kind = "value" =>
              \A k \in DOMAIN DEFAULTS :
                 slot.out.value[k] = IF k \in DOMAIN slot.read.value
                                     THEN slot.read.value[k]
                                     ELSE DEFAULTS[k]

\* A stored value with some keys and without others has been read.
C21_Witness ==
    /\ slot.pc = "done" /\ slot.fn = "loadWindows"
    /\ slot.read.kind = "value"
    /\ DOMAIN slot.read.value # {}
    /\ DOMAIN slot.read.value # DOMAIN DEFAULTS
    /\ slot.out.value # DEFAULTS

\* C25 -- isWeekend uses the civil day: isWeekend(tz, d) is true exactly
\* when the civil date of d in tz is a Saturday or a Sunday, also close to
\* local midnight, where the UTC calendar day is not the local one.
C25_IsWeekendCivil ==
    (quiet.pc = "done" /\ quiet.fn = "isWeekend") =>
        (quiet.out <=> IsSatSun(CivilDay(quiet.tz, quiet.d)))

\* The civil time exists in the zone: some instant shows it
Exists(tz, civil) ==
    LocalInstants(tz, civil.D,
                  civil.h * 3600 + civil.m * 60 + civil.s) # {}

\* C26 -- Civil-time round trip across DST: a civil time that exists in the
\* zone, made an instant by buildISO and read back by partsInTZ, is the
\* same civil time, also within a few hours of the transition.
C26_RoundTrip ==
    (quiet.pc = "done" /\ quiet.fn = "buildISO"
        /\ Exists(quiet.tz, quiet.civil)) =>
        /\ quiet.out.D = quiet.civil.D
        /\ quiet.out.h = quiet.civil.h
        /\ quiet.out.m = quiet.civil.m
        /\ quiet.out.s = quiet.civil.s

\* C33 -- Batch size is bounded: whatever the limit parameter (absent, 0,
\* negative, above the maximum, not a number), the limit a stage works
\* with is an integer from 1 to 200 (planner, publisher) or 500 (claimer),
\* and the invocation selects and writes at most that many rows.
C33_BatchBounded ==
    (slot.pc = "done" /\ slot.fn = "stage") =>
        /\ ~slot.limit.nan
        /\ slot.limit.v \in 1..LimitMax[slot.stage]
        /\ slot.selected <= slot.limit.v
        /\ slot.written <= slot.limit.v

-----------------------------------------------------------------------------
(* Progress of the pipeline *)

\* C18 Liveness under repeated ticks: while ticks keep being invoked and
\* store calls eventually succeed, every approved row routed to "ai" or to
\* "now" eventually has posted_at set, also after invocations that died
\* between their store calls and with a backlog above the limit.
C18_Liveness ==
    \A i \in Ids :
        (rows[i].status = "approved"
            /\ rows[i].schedule_strategy \in {"ai", "now"})
          ~> (rows[i].posted_at # NULL)

\* After failures every row is posted, the rows of the backlog claimed by
\* different runs.
C18_Witness ==
    /\ faults > 0
    /\ \A i \in Ids : rows[i].posted_at # NULL
    /\ \E i, j \in Ids :
         /\ rows[i].schedule_strategy = "ai"
         /\ rows[j].schedule_strategy = "now"
         /\ rows[i].queued_at # rows[j].queued_at

-----------------------------------------------------------------------------
(* Who may call *)

\* C40 -- Authorization chain is consistent: for every configuration of
\* CRON_SECRET, CRON_TOKEN and CRON_ORCH_KEY a request the cron proxy accepts
\* is accepted by the orchestrator, and when the orchestrator accepts a
\* request the token it forwards is accepted by the stages: no accepted
\* request ends in a 401 inside the chain.
C40_AuthChain ==
    (slot.pc = "done" /\ slot.fn = "cron") =>
        /\ slot.proxy = "forward" => slot.orch = "200"
        /\ slot.orch = "200" => slot.stages = "200"

\* An approved row on which "Post now" was pressed last
NowRow(r) ==
    /\ r.status = "approved"
    /\ r.schedule_strategy = "now"

\* The step ends p's tick
TickEnds(p) == pc[p] # "idle" /\ pc'[p] = "idle"

\* C39 -- Post-now is served by the next tick: an approved row that got a
\* postnow event before a tick started has queued_at and posted_at set
\* when that tick ends, and the tick does end; the store calls of the tick
\* succeed and fewer than 50 rows are due or queued.
C39_PostNowServed ==
    /\ [][TickEnds("a") =>
            \A i \in Ids :
                NowRow(rows[i]) =>
                    /\ rows'[i].queued_at # NULL
                    /\ rows'[i].posted_at # NULL]_vars
    /\ \A i \in Ids :
          (pc["a"] # "idle" /\ NowRow(rows[i]))
             ~> (/\ pc["a"] = "idle"
                 /\ rows[i].queued_at # NULL
                 /\ rows[i].posted_at # NULL)

\* A tick has ended and has claimed and posted a row on which "Post now"
\* was pressed after the start, next to a row it planned for later
C39_Witness ==
    /\ pc["a"] = "idle"
    /\ \E i, j \in Ids :
         /\ NowRow(rows[i])
         /\ rows[i].scheduled_at > Clock0
         /\ rows[i].queued_at # NULL
         /\ rows[i].queued_at >= rows[i].scheduled_at
         /\ rows[i].posted_at # NULL
         /\ rows[j].schedule_strategy = "ai"
         /\ rows[j].scheduled_at # NULL
         /\ rows[j].queued_at = NULL

====
